---- MODULE Spec2Model ----
(***************************************************************************)
(* The tx8 virtual machine (TecTrixer/tx8, Rust): the address space, the   *)
(* CPU, the operand resolver, the decoder, the dispatcher and the driver   *)
(* loop, as a state machine whose step is Execution::next_step.            *)
(*                                                                         *)
(* Representation.  A u32 is a sequence of 4 bytes, least significant      *)
(* first (the order of u32::to_le_bytes), because the values of a u32 do   *)
(* not fit the integers of the model checker.  A cast to a narrower type   *)
(* keeps the first bytes, a widening cast appends zero or sign bytes.      *)
(* Arithmetic wraps: Execution::new_with_rom calls hash(), whose u32       *)
(* subtraction overflows for "print_u32" (execution.rs:730), so an         *)
(* Execution exists only in a build without overflow checks, where + - *   *)
(* wrap.  Signed division overflow panics in every build.                  *)
(*                                                                         *)
(* The 16 MiB array is held sparsely: `memory` maps the addresses of the   *)
(* non-zero bytes to their values and every other byte of the array is 0.  *)
(***************************************************************************)
EXTENDS Integers, Sequences, FiniteSets, TLC

(***************************************************************************)
(* Bytes and little-endian byte sequences (u8, u16, u32, u64).             *)
(***************************************************************************)
Byte == 0..255

Pow2(i) == CASE i = 0 -> 1 [] i = 1 -> 2 [] i = 2 -> 4 [] i = 3 -> 8
             [] i = 4 -> 16 [] i = 5 -> 32 [] i = 6 -> 64 [] i = 7 -> 128
             [] OTHER -> 256

\* bit i (0 = least significant) of the byte sequence x
BitOf(x, i) == (x[(i \div 8) + 1] \div Pow2(i % 8)) % 2

RECURSIVE FromBits(_, _)
\* the byte sequence of n bytes whose bit i is f[i]
FromBits(f, n) ==
    IF n = 0 THEN <<>>
    ELSE Append(FromBits(f, n - 1),
                f[8*(n-1)] + 2*f[8*(n-1)+1] + 4*f[8*(n-1)+2] + 8*f[8*(n-1)+3]
                + 16*f[8*(n-1)+4] + 32*f[8*(n-1)+5] + 64*f[8*(n-1)+6] + 128*f[8*(n-1)+7])

\* a u32 from a number below 2^31
Word(n) == <<n % 256, (n \div 256) % 256, (n \div 65536) % 256, n \div 16777216>>

\* a u32 from an i32 (two's complement)
FromI32(n) ==
    IF n >= 0 THEN Word(n)
    ELSE LET m == (n + 2147483647) + 1
         IN  <<m % 256, (m \div 256) % 256, (m \div 65536) % 256, (m \div 16777216) + 128>>

RECURSIVE Repeat(_, _)
\* n bytes b
Repeat(b, n) == IF n = 0 THEN <<>> ELSE Append(Repeat(b, n - 1), b)
ZeroSeq(n) == Repeat(0, n)
OnesSeq(n) == Repeat(255, n)

IsZero(x) == \A i \in DOMAIN x : x[i] = 0
IsNeg(x) == x[Len(x)] >= 128

\* `as u8`, `as u16`: keep the low n bytes
Trunc(x, n) == SubSeq(x, 1, n)
\* widening of an unsigned value
ZeroExt(x, n) == x \o ZeroSeq(n - Len(x))
\* widening of a signed value
SignExt(x, n) == x \o (IF IsNeg(x) THEN OnesSeq(n - Len(x)) ELSE ZeroSeq(n - Len(x)))

\* value of an i8 / i16 / i32 as an integer
ToSigned(x) ==
    LET n == Len(x)
        lowpart == IF n = 1 THEN 0
                   ELSE IF n = 2 THEN x[1]
                   ELSE x[1] + 256 * x[2] + 65536 * x[3]
        top == IF x[n] >= 128 THEN x[n] - 256 ELSE x[n]
        scale == IF n = 1 THEN 1 ELSE IF n = 2 THEN 256 ELSE 16777216
    IN  top * scale + lowpart

\* value of the low 24 bits as a number (usize)
Low24(x) == x[1] + 256 * x[2] + 65536 * x[3]

RECURSIVE AddSeq(_, _, _)
\* x + y + c bytewise; the result has one byte more than x: the carry out
AddSeq(x, y, c) ==
    IF x = <<>> THEN <<c>>
    ELSE LET t == x[1] + y[1] + c
         IN  <<t % 256>> \o AddSeq(Tail(x), Tail(y), t \div 256)

RECURSIVE NotSeq(_)
NotSeq(x) == IF x = <<>> THEN <<>> ELSE <<255 - x[1]>> \o NotSeq(Tail(x))

wrapping_add(x, y) == Trunc(AddSeq(x, y, 0), Len(x))
wrapping_sub(x, y) == Trunc(AddSeq(x, NotSeq(y), 1), Len(x))
wrapping_neg(x) == wrapping_sub(ZeroSeq(Len(x)), x)

\* uN::overflowing_add / overflowing_sub: <<result, overflowed>>
overflowing_add_unsigned(x, y) ==
    LET t == AddSeq(x, y, 0) IN <<Trunc(t, Len(x)), t[Len(x) + 1] = 1>>
overflowing_sub_unsigned(x, y) ==
    LET t == AddSeq(x, NotSeq(y), 1) IN <<Trunc(t, Len(x)), t[Len(x) + 1] = 0>>
\* iN::overflowing_add / overflowing_sub
overflowing_add_signed(x, y) ==
    LET res == wrapping_add(x, y)
    IN  <<res, IsNeg(x) = IsNeg(y) /\ IsNeg(res) # IsNeg(x)>>
overflowing_sub_signed(x, y) ==
    LET res == wrapping_sub(x, y)
    IN  <<res, IsNeg(x) # IsNeg(y) /\ IsNeg(res) # IsNeg(x)>>

\* unsigned comparison of two byte sequences of one length
RECURSIVE LessSeq(_, _)
LessSeq(x, y) ==
    IF x = <<>> THEN FALSE
    ELSE LET n == Len(x)
         IN  x[n] < y[n] \/ (x[n] = y[n] /\ LessSeq(SubSeq(x, 1, n - 1), SubSeq(y, 1, n - 1)))

\* iN::signum as a value of the same width
signum(x) ==
    IF IsZero(x) THEN x
    ELSE IF IsNeg(x) THEN OnesSeq(Len(x))
    ELSE <<1>> \o ZeroSeq(Len(x) - 1)

\* bitwise operators
BitAnd(x, y) == FromBits([i \in 0..(8 * Len(x) - 1) |-> BitOf(x, i) * BitOf(y, i)], Len(x))
BitOr(x, y) ==
    FromBits([i \in 0..(8 * Len(x) - 1) |-> IF BitOf(x, i) + BitOf(y, i) > 0 THEN 1 ELSE 0], Len(x))
BitXor(x, y) == FromBits([i \in 0..(8 * Len(x) - 1) |-> (BitOf(x, i) + BitOf(y, i)) % 2], Len(x))

\* x << k, x >> k (logical) and x >> k (arithmetic), 0 <= k < 8 * Len(x)
Shl(x, k) ==
    FromBits([i \in 0..(8 * Len(x) - 1) |-> IF i >= k THEN BitOf(x, i - k) ELSE 0], Len(x))
Shr(x, k) ==
    FromBits([i \in 0..(8 * Len(x) - 1) |->
                 IF i + k < 8 * Len(x) THEN BitOf(x, i + k) ELSE 0], Len(x))
Sar(x, k) ==
    FromBits([i \in 0..(8 * Len(x) - 1) |->
                 IF i + k < 8 * Len(x) THEN BitOf(x, i + k) ELSE BitOf(x, 8 * Len(x) - 1)],
             Len(x))
rotate_left(x, k) ==
    FromBits([i \in 0..(8 * Len(x) - 1) |->
                 BitOf(x, (i + 8 * Len(x) - (k % (8 * Len(x)))) % (8 * Len(x)))], Len(x))
rotate_right(x, k) ==
    FromBits([i \in 0..(8 * Len(x) - 1) |-> BitOf(x, (i + k) % (8 * Len(x)))], Len(x))

RECURSIVE MulByte(_, _, _)
\* x * b + c for a byte b; the result has one byte more than x
MulByte(x, b, c) ==
    IF x = <<>> THEN <<c>>
    ELSE LET t == x[1] * b + c
         IN  <<t % 256>> \o MulByte(Tail(x), b, t \div 256)

RECURSIVE MulSeq(_, _)
\* the product of x and y, of Len(x) + Len(y) bytes
MulSeq(x, y) ==
    IF y = <<>> THEN ZeroSeq(Len(x))
    ELSE LET low == MulByte(x, y[1], 0)
             high == MulSeq(x, Tail(y))
             sum == wrapping_add(Tail(low) \o ZeroSeq(Len(y) - 1), high)
         IN  <<low[1]>> \o sum

wrapping_mul(x, y) == Trunc(MulSeq(x, y), Len(x))

RECURSIVE DivStep(_, _, _, _, _)
\* restoring division of unsigned n by d # 0, bits i .. 0 of n still to go, with the
\* quotient q and the remainder r of the bits above i: <<quotient, remainder>>
DivStep(n, d, i, q, r) ==
    IF i < 0 THEN <<q, r>>
    ELSE LET r2 == AddSeq(r, r, BitOf(n, i))   \* 2 * r + bit, one byte more than n
             dd == d \o <<0>>
         IN  IF LessSeq(r2, dd)
             THEN DivStep(n, d, i - 1, q, Trunc(r2, Len(n)))
             ELSE DivStep(n, d, i - 1, [q EXCEPT ![(i \div 8) + 1] = @ + Pow2(i % 8)],
                          Trunc(wrapping_sub(r2, dd), Len(n)))

\* unsigned `/` and `%`
udiv(n, d) == DivStep(n, d, 8 * Len(n) - 1, ZeroSeq(Len(n)), ZeroSeq(Len(n)))[1]
urem(n, d) == DivStep(n, d, 8 * Len(n) - 1, ZeroSeq(Len(n)), ZeroSeq(Len(n)))[2]

Magnitude(x) == IF IsNeg(x) THEN wrapping_neg(x) ELSE x
\* signed `/` and `%` (truncating toward zero; the remainder has the sign of n)
sdiv(n, d) ==
    LET q == udiv(Magnitude(n), Magnitude(d))
    IN  IF IsNeg(n) # IsNeg(d) THEN wrapping_neg(q) ELSE q
srem(n, d) ==
    LET r == urem(Magnitude(n), Magnitude(d))
    IN  IF IsNeg(n) THEN wrapping_neg(r) ELSE r
\* i32::MIN / -1 and i32::MIN % -1 panic ("attempt to divide with overflow")
DivOverflows(n, d) == n = <<0, 0, 0, 128>> /\ d = OnesSeq(4)

(***************************************************************************)
(* errors.rs: Tx8Error.  InvalidOpCode carries the offending byte.         *)
(***************************************************************************)
NoError == [kind |-> "Ok", byte |-> 0]
Tx8Error(kind) == [kind |-> kind, byte |-> 0]
InvalidOpCode(byte) == [kind |-> "InvalidOpCode", byte |-> byte]
ErrorKinds == {"ParseError", "InstructionError", "OutOfBoundsWrite", "InvalidRegister",
               "InvalidSysCall", "InvalidOpCode", "DivisionByZero", "NoInputGiven"}

\* a Result: Ok(v) or Err(e)
Ok(v) == [err |-> NoError, v |-> v]
Err(e) == [err |-> e, v |-> <<>>]
IsOk(res) == res.err = NoError

(***************************************************************************)
(* hardware.rs: Memory.                                                    *)
(***************************************************************************)
MB_16 == 16777216
MB_4 == 4194304

\* array[ptr] = val, in the sparse form
Store(array, ptr, val) ==
    IF val = 0
    THEN [a \in (DOMAIN array) \ {ptr} |-> array[a]]
    ELSE [a \in (DOMAIN array) \cup {ptr} |-> IF a = ptr THEN val ELSE array[a]]

\* a Vec<u8> or a slice of one: bytes followed by fill zero bytes, so that
\* payloads of megabytes are values of the model
Bytes(bytes, fill) == [bytes |-> bytes, fill |-> fill]
SliceLen(d) == Len(d.bytes) + d.fill
\* data[i]
At(d, i) == IF i < Len(d.bytes) THEN d.bytes[i + 1] ELSE 0
\* &data[a..b], for a <= b <= data.len()
Slice(d, a, b) ==
    Bytes(IF a < Len(d.bytes)
          THEN SubSeq(d.bytes, a + 1, IF b < Len(d.bytes) THEN b ELSE Len(d.bytes))
          ELSE <<>>,
          IF b > Len(d.bytes) THEN b - (IF a > Len(d.bytes) THEN a ELSE Len(d.bytes)) ELSE 0)
\* the bytes of a short slice written out
Expand(d) == d.bytes \o ZeroSeq(d.fill)

\* array[MB_4..MB_4 + data.len()] exists
load_rom_fits(len) == MB_4 + len <= MB_16

\* load_rom copying the payload one byte above MB_4
load_rom_shifted(data) ==
    [a \in {MB_4 + i : i \in {j \in DOMAIN data : data[j] # 0}} |-> data[a - MB_4]]

load_rom(data) == [a \in {MB_4 + i - 1 : i \in {j \in DOMAIN data : data[j] # 0}} |-> data[a - MB_4 + 1]]

\* truncate_ptr keeping 25 bits
truncate_ptr_wide(ptr) == Low24(ptr) + 16777216 * (ptr[4] % 2)

truncate_ptr(ptr) == Low24(ptr)

\* Memory::read taking an index past the end back to address 0
read_wrapping(array, ptr) == IF (ptr % MB_16) \in DOMAIN array THEN array[ptr % MB_16] ELSE 0

read(array, ptr) == IF ptr < MB_16 /\ ptr \in DOMAIN array THEN array[ptr] ELSE 0

read_byte(array, ptr) == LET p0 == truncate_ptr(ptr) IN <<read(array, p0)>>
read_short(array, ptr) ==
    LET p0 == truncate_ptr(ptr) IN <<read(array, p0), read(array, p0 + 1)>>
read_24bit(array, ptr) ==
    LET p0 == truncate_ptr(ptr)
    IN  <<read(array, p0), read(array, p0 + 1), read(array, p0 + 2), 0>>
read_int(array, ptr) ==
    LET p0 == truncate_ptr(ptr)
    IN  <<read(array, p0), read(array, p0 + 1), read(array, p0 + 2), read(array, p0 + 3)>>

\* Memory::write: [array, err]
write(array, ptr, val) ==
    IF ptr >= MB_16
    THEN [array |-> array, err |-> Tx8Error("OutOfBoundsWrite")]
    ELSE [array |-> Store(array, ptr, val), err |-> NoError]

RECURSIVE write_bytes(_, _, _)
\* the chain self.write(ptr, first)?; self.write(ptr + 1, second)?; ...
write_bytes(array, ptr, bytes) ==
    IF bytes = <<>> THEN [array |-> array, err |-> NoError]
    ELSE LET w1 == write(array, ptr, bytes[1])
         IN  IF w1.err # NoError THEN w1 ELSE write_bytes(w1.array, ptr + 1, Tail(bytes))

write_byte(array, ptr, val) == write(array, truncate_ptr(ptr), val[1])
write_short(array, ptr, val) == write_bytes(array, truncate_ptr(ptr), Trunc(val, 2))
\* write_int storing the bytes last to first
write_int_reversed(array, ptr, val) ==
    write_bytes(array, truncate_ptr(ptr), <<val[4], val[3], val[2], val[1]>>)

write_int(array, ptr, val) == write_bytes(array, truncate_ptr(ptr), Trunc(val, 4))

(***************************************************************************)
(* hardware.rs: Cpu.                                                       *)
(***************************************************************************)
Cpu_new == [a |-> Word(0), b |-> Word(0), c |-> Word(0), d |-> Word(0),
            r |-> Word(0), o |-> Word(0), s |-> Word(12591104), p |-> Word(MB_4)]

RegNames == {"a", "b", "c", "d", "r", "o", "p", "s"}

\* the register a low nibble 0..7 selects
RegOf(n) == CASE n = 0 -> "a" [] n = 1 -> "b" [] n = 2 -> "c" [] n = 3 -> "d"
              [] n = 4 -> "r" [] n = 5 -> "o" [] n = 6 -> "p" [] OTHER -> "s"

(***************************************************************************)
(* parameter.rs: parameter modes, parameters, values and writables.        *)
(***************************************************************************)
\* parse_par_mode reading only the low three bits of the nibble
parse_par_mode_masked(byte) ==
    CASE byte % 8 = 0 -> Ok("Unused")
      [] byte % 8 = 1 -> Ok("Constant8")
      [] byte % 8 = 2 -> Ok("Constant16")
      [] byte % 8 = 3 -> Ok("Constant32")
      [] byte % 8 = 4 -> Ok("AbsoluteAddress")
      [] byte % 8 = 5 -> Ok("RelativeAddress")
      [] byte % 8 = 6 -> Ok("Register")
      [] byte % 8 = 7 -> Ok("RegisterAddress")

parse_par_mode(byte) ==
    CASE byte = 0 -> Ok("Unused")
      [] byte = 1 -> Ok("Constant8")
      [] byte = 2 -> Ok("Constant16")
      [] byte = 3 -> Ok("Constant32")
      [] byte = 4 -> Ok("AbsoluteAddress")
      [] byte = 5 -> Ok("RelativeAddress")
      [] byte = 6 -> Ok("Register")
      [] byte = 7 -> Ok("RegisterAddress")
      [] OTHER -> Err(Tx8Error("InstructionError"))

Parameter(kind, x) == [kind |-> kind, x |-> x]

\* parse_parameter with a 4-byte footprint for the 24-bit addresses
parse_parameter_wide(mem, ptr, par_mode) ==
    CASE par_mode = "Unused" -> <<Parameter("Unused", <<>>), 0>>
      [] par_mode = "Constant8" -> <<Parameter("Constant8", read_byte(mem, ptr)), 1>>
      [] par_mode = "Constant16" -> <<Parameter("Constant16", read_short(mem, ptr)), 2>>
      [] par_mode = "Constant32" -> <<Parameter("Constant32", read_int(mem, ptr)), 4>>
      [] par_mode = "AbsoluteAddress" -> <<Parameter("AbsoluteAddress", read_24bit(mem, ptr)), 4>>
      [] par_mode = "RelativeAddress" -> <<Parameter("RelativeAddress", read_24bit(mem, ptr)), 4>>
      [] par_mode = "Register" -> <<Parameter("Register", read_byte(mem, ptr)), 1>>
      [] par_mode = "RegisterAddress" -> <<Parameter("RegisterAddress", read_byte(mem, ptr)), 1>>

\* <<Parameter, length>>
parse_parameter(mem, ptr, par_mode) ==
    CASE par_mode = "Unused" -> <<Parameter("Unused", <<>>), 0>>
      [] par_mode = "Constant8" -> <<Parameter("Constant8", read_byte(mem, ptr)), 1>>
      [] par_mode = "Constant16" -> <<Parameter("Constant16", read_short(mem, ptr)), 2>>
      [] par_mode = "Constant32" -> <<Parameter("Constant32", read_int(mem, ptr)), 4>>
      [] par_mode = "AbsoluteAddress" -> <<Parameter("AbsoluteAddress", read_24bit(mem, ptr)), 3>>
      [] par_mode = "RelativeAddress" -> <<Parameter("RelativeAddress", read_24bit(mem, ptr)), 3>>
      [] par_mode = "Register" -> <<Parameter("Register", read_byte(mem, ptr)), 1>>
      [] par_mode = "RegisterAddress" -> <<Parameter("RegisterAddress", read_byte(mem, ptr)), 1>>

Size_bytes(size) == CASE size = "Byte" -> 1 [] size = "Short" -> 2 [] size = "Int" -> 4

Value_new(val, size) == [val |-> val, size |-> size]

get_reg_size(byte) ==
    CASE byte \in 0..7 -> "Int"
      [] byte \in 32..39 -> "Short"
      [] byte \in 16..23 -> "Byte"
      [] OTHER -> "Int"

\* the filter of from_par: 0xff, 0xffff, 0xffffffff
SizeFilter(size) ==
    CASE size = "Byte" -> <<255, 0, 0, 0>>
      [] size = "Short" -> <<255, 255, 0, 0>>
      [] size = "Int" -> <<255, 255, 255, 255>>

\* a memory read of mem_size bytes as the unsigned from_par does it
ReadSized(mem, ptr, mem_size) ==
    CASE mem_size = "Byte" -> Value_new(ZeroExt(read_byte(mem, ptr), 4), "Byte")
      [] mem_size = "Short" -> Value_new(ZeroExt(read_short(mem, ptr), 4), "Short")
      [] mem_size = "Int" -> Value_new(read_int(mem, ptr), "Int")

\* a signed read that extends a short with zeros
ReadSizedSigned_byte(mem, ptr, mem_size) ==
    CASE mem_size = "Byte" -> Value_new(SignExt(read_byte(mem, ptr), 4), "Byte")
      [] mem_size = "Short" -> Value_new(ZeroExt(read_short(mem, ptr), 4), "Short")
      [] mem_size = "Int" -> Value_new(read_int(mem, ptr), "Int")

\* the same with `as i8 as i32 as u32` / `as i16 as i32 as u32`
ReadSizedSigned(mem, ptr, mem_size) ==
    CASE mem_size = "Byte" -> Value_new(SignExt(read_byte(mem, ptr), 4), "Byte")
      [] mem_size = "Short" -> Value_new(SignExt(read_short(mem, ptr), 4), "Short")
      [] mem_size = "Int" -> Value_new(read_int(mem, ptr), "Int")

Value_from_par(par, cpu, mem, mem_size) ==
    CASE par.kind = "Unused" -> Err(Tx8Error("InstructionError"))
      [] par.kind = "Constant8" -> Ok(Value_new(ZeroExt(par.x, 4), "Byte"))
      [] par.kind = "Constant16" -> Ok(Value_new(ZeroExt(par.x, 4), "Short"))
      [] par.kind = "Constant32" -> Ok(Value_new(par.x, "Int"))
      [] par.kind = "AbsoluteAddress" -> Ok(ReadSized(mem, par.x, mem_size))
      [] par.kind = "RelativeAddress" ->
            Ok(ReadSized(mem, wrapping_add(par.x, cpu.o), mem_size))
      [] par.kind = "Register" ->
            LET r == par.x[1]
            IN  IF r % 16 > 7 THEN Err(Tx8Error("InvalidRegister"))
                ELSE LET val == cpu[RegOf(r % 16)]
                         size == get_reg_size(r)
                     IN  Ok(Value_new(BitAnd(val, SizeFilter(size)), size))
      [] par.kind = "RegisterAddress" ->
            LET r == par.x[1]
            IN  IF r % 16 > 7 THEN Err(Tx8Error("InvalidRegister"))
                ELSE LET val == cpu[RegOf(r % 16)]
                         filter == SizeFilter(get_reg_size(r))
                     IN  Ok(ReadSized(mem, BitAnd(val, filter), mem_size))

Value_from_par_signed(par, cpu, mem, mem_size) ==
    CASE par.kind = "Unused" -> Err(Tx8Error("InstructionError"))
      [] par.kind = "Constant8" -> Ok(Value_new(SignExt(par.x, 4), "Byte"))
      [] par.kind = "Constant16" -> Ok(Value_new(SignExt(par.x, 4), "Short"))
      [] par.kind = "Constant32" -> Ok(Value_new(par.x, "Int"))
      [] par.kind = "AbsoluteAddress" -> Ok(ReadSizedSigned(mem, par.x, mem_size))
      [] par.kind = "RelativeAddress" ->
            Ok(ReadSizedSigned(mem, wrapping_add(par.x, cpu.o), mem_size))
      [] par.kind = "Register" ->
            LET r == par.x[1]
            IN  IF r % 16 > 7 THEN Err(Tx8Error("InvalidRegister"))
                ELSE LET val == cpu[RegOf(r % 16)]
                         size == get_reg_size(r)
                         sval == CASE size = "Byte" -> SignExt(Trunc(val, 1), 4)
                                   [] size = "Short" -> SignExt(Trunc(val, 2), 4)
                                   [] size = "Int" -> val
                     IN  Ok(Value_new(sval, size))
      [] par.kind = "RegisterAddress" ->
            LET r == par.x[1]
            IN  IF r % 16 > 7 THEN Err(Tx8Error("InvalidRegister"))
                ELSE LET val == cpu[RegOf(r % 16)]
                         filter == SizeFilter(get_reg_size(r))
                     IN  Ok(ReadSizedSigned(mem, BitAnd(val, filter), mem_size))

\* a Writable is the parameter it was made from: [kind, x]
Writable_from_par(par) ==
    CASE par.kind \in {"Unused", "Constant8", "Constant16", "Constant32"} ->
            Err(Tx8Error("InstructionError"))
      [] OTHER -> Ok(par)

\* the outcome of a write: the machine after it and the error it returned
Wrote(cpu, mem, err) == [cpu |-> cpu, mem |-> mem, err |-> err]

\* the match of the memory write_size bodies; the Result of the write is dropped
MemWriteSized(mem, ptr, val, size) ==
    CASE size = "Byte" -> write_byte(mem, ptr, Trunc(val, 1)).array
      [] size = "Short" -> write_short(mem, ptr, Trunc(val, 2)).array
      [] size = "Int" -> write_int(mem, ptr, val).array

AbsoluteAddress_write_size(self, mem, cpu, val, size) ==
    Wrote(cpu, MemWriteSized(mem, self.x, val, size), NoError)
AbsoluteAddress_write(self, mem, cpu, val) ==
    AbsoluteAddress_write_size(self, mem, cpu, val, "Byte")
AbsoluteAddress_size(self) == "Int"

RelativeAddress_write_size(self, mem, cpu, val, size) ==
    LET ptr == wrapping_add(self.x, cpu.o)
    IN  Wrote(cpu, MemWriteSized(mem, ptr, val, size), NoError)
RelativeAddress_write(self, mem, cpu, val) ==
    RelativeAddress_write_size(self, mem, cpu, val, "Byte")
RelativeAddress_size(self) == "Int"

\* a write_size whose Byte mask is the mask of Short
Register_write_size_wide(self, mem, cpu, val, size) ==
    LET mask == CASE size = "Byte" -> <<0, 0, 255, 255>>
                  [] size = "Short" -> <<0, 0, 255, 255>>
                  [] size = "Int" -> <<0, 0, 0, 0>>
        mask2 == SizeFilter(size)
        n == self.x[1] % 16
    IN  IF n > 7 THEN Wrote(cpu, mem, Tx8Error("InvalidRegister"))
        ELSE Wrote([cpu EXCEPT ![RegOf(n)] = BitOr(BitAnd(@, mask), BitAnd(val, mask2))],
                   mem, NoError)

Register_write_size(self, mem, cpu, val, size) ==
    LET mask == CASE size = "Byte" -> <<0, 255, 255, 255>>
                  [] size = "Short" -> <<0, 0, 255, 255>>
                  [] size = "Int" -> <<0, 0, 0, 0>>
        mask2 == SizeFilter(size)
        n == self.x[1] % 16
    IN  IF n > 7 THEN Wrote(cpu, mem, Tx8Error("InvalidRegister"))
        ELSE Wrote([cpu EXCEPT ![RegOf(n)] = BitOr(BitAnd(@, mask), BitAnd(val, mask2))],
                   mem, NoError)
\* a write that stores before it validates the high nibble
Register_write_late(self, mem, cpu, val) ==
    LET hi == self.x[1] - (self.x[1] % 16)
        stored == Register_write_size(self, mem, cpu, val, "Int")
    IN  CASE hi = 0 -> stored
          [] hi = 32 -> Register_write_size(self, mem, cpu, val, "Short")
          [] hi = 16 -> Register_write_size(self, mem, cpu, val, "Byte")
          [] OTHER -> Wrote(stored.cpu, mem, Tx8Error("InvalidRegister"))

Register_write(self, mem, cpu, val) ==
    LET hi == self.x[1] - (self.x[1] % 16)
    IN  CASE hi = 0 -> Register_write_size(self, mem, cpu, val, "Int")
          [] hi = 32 -> Register_write_size(self, mem, cpu, val, "Short")
          [] hi = 16 -> Register_write_size(self, mem, cpu, val, "Byte")
          [] OTHER -> Wrote(cpu, mem, Tx8Error("InvalidRegister"))
Register_size(self) == get_reg_size(self.x[1])

RegisterAddress_write_size(self, mem, cpu, val, size) ==
    LET b == self.x[1]
    IN  IF b \in 0..7 \/ b \in 16..23 \/ b \in 32..39
        THEN LET reg == cpu[RegOf(b % 16)]
                 ptr == CASE b \in 0..7 -> reg
                          [] b \in 16..23 -> BitAnd(reg, <<255, 0, 0, 0>>)
                          [] b \in 32..39 -> BitAnd(reg, <<255, 255, 0, 0>>)
             IN  Wrote(cpu, MemWriteSized(mem, ptr, val, size), NoError)
        ELSE Wrote(cpu, mem, Tx8Error("InvalidRegister"))
RegisterAddress_write(self, mem, cpu, val) ==
    RegisterAddress_write_size(self, mem, cpu, val, "Int")
RegisterAddress_size(self) == "Int"

Writable_write(self, mem, cpu, val) ==
    CASE self.kind = "AbsoluteAddress" -> AbsoluteAddress_write(self, mem, cpu, val)
      [] self.kind = "RelativeAddress" -> RelativeAddress_write(self, mem, cpu, val)
      [] self.kind = "Register" -> Register_write(self, mem, cpu, val)
      [] self.kind = "RegisterAddress" -> RegisterAddress_write(self, mem, cpu, val)
Writable_size(self) ==
    CASE self.kind = "AbsoluteAddress" -> AbsoluteAddress_size(self)
      [] self.kind = "RelativeAddress" -> RelativeAddress_size(self)
      [] self.kind = "Register" -> Register_size(self)
      [] self.kind = "RegisterAddress" -> RegisterAddress_size(self)
Writable_write_size(self, mem, cpu, val, size) ==
    CASE self.kind = "AbsoluteAddress" -> AbsoluteAddress_write_size(self, mem, cpu, val, size)
      [] self.kind = "RelativeAddress" -> RelativeAddress_write_size(self, mem, cpu, val, size)
      [] self.kind = "Register" -> Register_write_size(self, mem, cpu, val, size)
      [] self.kind = "RegisterAddress" -> RegisterAddress_write_size(self, mem, cpu, val, size)

(***************************************************************************)
(* instruction.rs: the opcode table and the decoder.                       *)
(***************************************************************************)
OpCodes ==
    { <<0, "Halt">>, <<1, "Nop">>, <<2, "Jump">>, <<3, "JumpEqual">>, <<4, "JumpNotEqual">>,
      <<5, "JumpGreaterThan">>, <<6, "JumpGreaterEqual">>, <<7, "JumpLessThan">>,
      <<8, "JumpLessEqual">>, <<9, "CompareSigned">>, <<10, "CompareFloat">>,
      <<11, "CompareUnsigned">>, <<12, "Call">>, <<13, "Return">>, <<14, "SysCall">>,
      <<16, "Load">>, <<17, "LoadSigned">>, <<18, "LoadWord">>, <<19, "LoadWordSigned">>,
      <<20, "LoadA">>, <<21, "StoreA">>, <<22, "LoadB">>, <<23, "StoreB">>, <<24, "LoadC">>,
      <<25, "StoreC">>, <<26, "LoadD">>, <<27, "StoreD">>, <<28, "Zero">>, <<29, "Push">>,
      <<30, "Pop">>,
      <<32, "Inc">>, <<33, "Dec">>, <<34, "Add">>, <<35, "Sub">>, <<36, "Mul">>, <<37, "Div">>,
      <<38, "Mod">>, <<39, "Max">>, <<40, "Min">>, <<41, "Abs">>, <<42, "Sign">>,
      <<48, "And">>, <<49, "Or">>, <<50, "Not">>, <<51, "Nand">>, <<52, "Xor">>,
      <<53, "ShiftLogicalRight">>, <<54, "ShiftArithRight">>, <<55, "ShiftLogicLeft">>,
      <<56, "RotateRight">>, <<57, "RotateLeft">>, <<58, "Set">>, <<59, "Clear">>,
      <<60, "Toggle">>, <<61, "Test">>,
      <<64, "IncFloat">>, <<65, "DecFloat">>, <<66, "AddFloat">>, <<67, "SubFloat">>,
      <<68, "MulFloat">>, <<69, "DivFloat">>, <<70, "ModFloat">>, <<71, "MaxFloat">>,
      <<72, "MinFloat">>, <<73, "AbsFloat">>, <<74, "SignFloat">>, <<75, "Sin">>, <<76, "Cos">>,
      <<77, "Tan">>, <<78, "ArcSin">>, <<79, "ArcCos">>, <<80, "ArcTan">>, <<81, "ArcTan2">>,
      <<82, "Sqrt">>, <<83, "Pow">>, <<84, "Exp">>, <<85, "Log">>, <<86, "Log2">>,
      <<87, "Log10">>,
      <<96, "AddUnsigned">>, <<97, "SubUnsigned">>, <<98, "MulUnsigned">>,
      <<99, "DivUnsigned">>, <<100, "ModUnsigned">>, <<101, "MaxUnsigned">>,
      <<102, "MinUnsigned">>,
      <<112, "Rand">>, <<113, "RSeed">>, <<114, "ItoF">>, <<115, "FtoI">>, <<116, "UtoF">>,
      <<117, "FtoU">> }

\* parse_op_code reading only the low seven bits of the byte
parse_op_code_masked(byte) ==
    IF \E e \in OpCodes : e[1] = byte % 128
    THEN Ok((CHOOSE e \in OpCodes : e[1] = byte % 128)[2])
    ELSE Err(InvalidOpCode(byte))

parse_op_code(byte) ==
    IF \E e \in OpCodes : e[1] = byte
    THEN Ok((CHOOSE e \in OpCodes : e[1] = byte)[2])
    ELSE Err(InvalidOpCode(byte))

\* operands an instruction variant does not carry
NoWritable == Parameter("Unused", <<>>)
NoValue == Value_new(Word(0), "Int")

Instruction(tag, to, val, val2, kind, flag, comp) ==
    [tag |-> tag, to |-> to, val |-> val, val2 |-> val2, kind |-> kind, flag |-> flag,
     comp |-> comp]

no_params(op) == Instruction(op, NoWritable, NoValue, NoValue, "None", FALSE, "None")

\* the `?` chain of an arm: the first error of its operands, in the order written
FirstError(parts) ==
    LET bad == {i \in DOMAIN parts : ~IsOk(parts[i])}
    IN  IF bad = {} THEN NoError
        ELSE parts[CHOOSE i \in bad : \A j \in bad : i <= j].err

\* arms by the operands they resolve
ArmV(tag, v1, comp) ==
    IF FirstError(<<v1>>) # NoError THEN Err(FirstError(<<v1>>))
    ELSE Ok(Instruction(tag, NoWritable, v1.v, NoValue, "None", FALSE, comp))
ArmVV(tag, v1, v2) ==
    IF FirstError(<<v1, v2>>) # NoError THEN Err(FirstError(<<v1, v2>>))
    ELSE Ok(Instruction(tag, NoWritable, v1.v, v2.v, "None", FALSE, "None"))
ArmW(tag, w) ==
    IF FirstError(<<w>>) # NoError THEN Err(FirstError(<<w>>))
    ELSE Ok(Instruction(tag, w.v, NoValue, NoValue, "None", FALSE, "None"))
ArmWV(tag, w, v1, kind, flag) ==
    IF FirstError(<<w, v1>>) # NoError THEN Err(FirstError(<<w, v1>>))
    ELSE Ok(Instruction(tag, w.v, v1.v, NoValue, kind, flag, "None"))
ArmWVV(tag, w, v1, v2, kind, flag) ==
    IF FirstError(<<w, v1, v2>>) # NoError THEN Err(FirstError(<<w, v1, v2>>))
    ELSE Ok(Instruction(tag, w.v, v1.v, v2.v, kind, flag, "None"))

\* f32::to_bits(1.0)
F32_ONE == <<0, 0, 128, 63>>

with_params(op_code, first_par, sec_par, cpu, mem) ==
    LET W == Writable_from_par(first_par)
        V1 == Value_from_par(first_par, cpu, mem, "Byte")
        V2 == Value_from_par(sec_par, cpu, mem, "Byte")
        S1 == Value_from_par_signed(first_par, cpu, mem, "Byte")
        S2 == Value_from_par_signed(sec_par, cpu, mem, "Byte")
        RegW(n) == Ok(Parameter("Register", <<n>>))
        Const(v) == Ok(Value_new(v, "Int"))
    IN  CASE op_code = "Jump" -> ArmV("Jump", V1, "None")
          [] op_code = "JumpEqual" -> ArmV("Jump", V1, "Equal")
          [] op_code = "JumpNotEqual" -> ArmV("Jump", V1, "NotEqual")
          [] op_code = "JumpGreaterThan" -> ArmV("Jump", V1, "Greater")
          [] op_code = "JumpGreaterEqual" -> ArmV("Jump", V1, "GreaterEqual")
          [] op_code = "JumpLessThan" -> ArmV("Jump", V1, "Less")
          [] op_code = "JumpLessEqual" -> ArmV("Jump", V1, "LessEqual")
          [] op_code = "CompareSigned" -> ArmVV("CompareSigned", V1, V2)
          [] op_code = "CompareFloat" -> ArmVV("CompareFloat", V1, V2)
          [] op_code = "CompareUnsigned" -> ArmVV("CompareUnsigned", V1, V2)
          [] op_code = "Call" -> ArmV("Call", V1, "None")
          [] op_code = "SysCall" -> ArmV("SysCall", V1, "None")
          [] op_code = "Load" -> ArmWV("Load", W, V2, "None", FALSE)
          [] op_code = "Push" -> ArmV("Push", V1, "None")
          [] op_code = "LoadSigned" -> ArmWV("Load", W, S2, "None", FALSE)
          [] op_code = "LoadA" -> ArmWV("Load", RegW(0), V1, "None", FALSE)
          [] op_code = "StoreA" -> ArmWV("Load", W, Const(cpu.a), "None", FALSE)
          [] op_code = "LoadB" -> ArmWV("Load", RegW(1), V1, "None", FALSE)
          [] op_code = "StoreB" -> ArmWV("Load", W, Const(cpu.b), "None", FALSE)
          [] op_code = "LoadC" -> ArmWV("Load", RegW(2), V1, "None", FALSE)
          [] op_code = "StoreC" -> ArmWV("Load", W, Const(cpu.c), "None", FALSE)
          [] op_code = "LoadD" -> ArmWV("Load", RegW(3), V1, "None", FALSE)
          [] op_code = "StoreD" -> ArmWV("Load", W, Const(cpu.d), "None", FALSE)
          [] op_code = "Zero" -> ArmWV("Load", W, Const(Word(0)), "None", FALSE)
          [] op_code = "Pop" -> ArmW("Pop", W)
          [] op_code = "LoadWord" ->
                ArmWV("Load", W, Value_from_par(sec_par, cpu, mem, "Int"), "None", FALSE)
          [] op_code = "LoadWordSigned" ->
                ArmWV("Load", W, Value_from_par_signed(sec_par, cpu, mem, "Int"), "None", FALSE)
          [] op_code = "Inc" -> ArmWVV("Add", W, V1, Const(Word(1)), "Unsigned", FALSE)
          [] op_code = "Dec" -> ArmWVV("Sub", W, V1, Const(Word(1)), "Unsigned", FALSE)
          [] op_code = "Add" -> ArmWVV("Add", W, S1, S2, "Signed", FALSE)
          [] op_code = "Sub" -> ArmWVV("Sub", W, S1, S2, "Signed", FALSE)
          [] op_code = "Mul" -> ArmWVV("Mul", W, S1, S2, "Signed", FALSE)
          [] op_code = "Div" -> ArmWVV("DivMod", W, S1, S2, "Signed", TRUE)
          [] op_code = "Mod" -> ArmWVV("DivMod", W, S1, S2, "Signed", FALSE)
          [] op_code = "Max" -> ArmWVV("MaxMin", W, S1, S2, "Signed", TRUE)
          [] op_code = "Min" -> ArmWVV("MaxMin", W, S1, S2, "Signed", FALSE)
          [] op_code = "Abs" -> ArmWV("AbsSign", W, S1, "Signed", TRUE)
          [] op_code = "Sign" -> ArmWV("AbsSign", W, S1, "Signed", FALSE)
          [] op_code = "AddUnsigned" -> ArmWVV("Add", W, V1, V2, "Unsigned", FALSE)
          [] op_code = "SubUnsigned" -> ArmWVV("Sub", W, V1, V2, "Unsigned", FALSE)
          [] op_code = "MulUnsigned" -> ArmWVV("Mul", W, V1, V2, "Unsigned", FALSE)
          [] op_code = "DivUnsigned" -> ArmWVV("DivMod", W, V1, V2, "Unsigned", TRUE)
          [] op_code = "ModUnsigned" -> ArmWVV("DivMod", W, V1, V2, "Unsigned", FALSE)
          [] op_code = "MaxUnsigned" -> ArmWVV("MaxMin", W, V1, V2, "Unsigned", TRUE)
          [] op_code = "MinUnsigned" -> ArmWVV("MaxMin", W, V1, V2, "Unsigned", FALSE)
          [] op_code = "IncFloat" -> ArmWVV("Add", W, V1, Const(F32_ONE), "Float", FALSE)
          [] op_code = "DecFloat" -> ArmWVV("Sub", W, V1, Const(F32_ONE), "Float", FALSE)
          [] op_code = "AddFloat" -> ArmWVV("Add", W, V1, V2, "Float", FALSE)
          [] op_code = "SubFloat" -> ArmWVV("Sub", W, V1, V2, "Float", FALSE)
          [] op_code = "MulFloat" -> ArmWVV("Mul", W, V1, V2, "Float", FALSE)
          [] op_code = "DivFloat" -> ArmWVV("DivMod", W, V1, V2, "Float", TRUE)
          [] op_code = "ModFloat" -> ArmWVV("DivMod", W, V1, V2, "Float", FALSE)
          [] op_code = "MaxFloat" -> ArmWVV("MaxMin", W, V1, V2, "Float", TRUE)
          [] op_code = "MinFloat" -> ArmWVV("MaxMin", W, V1, V2, "Float", FALSE)
          [] op_code = "AbsFloat" -> ArmWV("AbsSign", W, V1, "Float", TRUE)
          [] op_code = "SignFloat" -> ArmWV("AbsSign", W, V1, "Float", FALSE)
          [] op_code \in {"And", "Or", "Nand", "Xor", "ShiftLogicalRight", "ShiftArithRight",
                          "ShiftLogicLeft", "RotateRight", "RotateLeft", "Set", "Clear",
                          "Toggle", "ArcTan2", "Pow"} ->
                ArmWVV(op_code, W, V1, V2, "None", FALSE)
          [] op_code \in {"Not", "Sin", "Cos", "Tan", "ArcSin", "ArcCos", "ArcTan", "Sqrt",
                          "Exp", "Log", "Log2", "Log10", "FtoI", "UtoF", "FtoU"} ->
                ArmWV(op_code, W, V1, "None", FALSE)
          [] op_code = "Test" -> ArmVV("Test", V1, V2)
          [] op_code = "Rand" -> ArmW("Rand", W)
          [] op_code = "RSeed" -> ArmV("RSeed", V1, "None")
          [] op_code = "ItoF" -> ArmWV("ItoF", W, S1, "None", FALSE)

\* increase_program_counter with Pop among the variants that do not advance
increase_program_counter_pop(instr) ==
    instr.tag \notin {"Halt", "Jump", "Call", "Return", "Pop"}

increase_program_counter(instr) == instr.tag \notin {"Halt", "Jump", "Call", "Return"}

\* `Ok((Instruction::with_params(..)?, len))`
WithLen(instr, len) == IF ~IsOk(instr) THEN Err(instr.err) ELSE Ok(<<instr.v, len>>)

\* what parse_instruction returns: Ok(<<Instruction, len>>) or Err
parse_instruction(cpu, mem, ptr) ==
    LET op_code == parse_op_code(read_byte(mem, ptr)[1])
    IN  IF ~IsOk(op_code) THEN Err(op_code.err)
        ELSE IF op_code.v \in {"Halt", "Nop", "Return"} THEN Ok(<<no_params(op_code.v), 1>>)
        ELSE
        LET parameter_mode_byte == read_byte(mem, wrapping_add(ptr, Word(1)))[1]
            first_mode == parse_par_mode(parameter_mode_byte \div 16)
            second_mode == parse_par_mode(parameter_mode_byte % 16)
        IN  IF ~IsOk(first_mode) THEN Err(first_mode.err)
            ELSE IF ~IsOk(second_mode) THEN Err(second_mode.err)
            ELSE
            LET first == parse_parameter(mem, wrapping_add(ptr, Word(2)), first_mode.v)
                second == parse_parameter(mem, wrapping_add(ptr, Word(2 + first[2])),
                                          second_mode.v)
                len == 2 + first[2] + second[2]
            IN  WithLen(with_params(op_code.v, first[1], second[1], cpu, mem), len)

(***************************************************************************)
(* random.rs: the linear congruential generator.                           *)
(***************************************************************************)
MULTIPLIER == 214013
INCREMENT == 2541011
RANGE == 32767
SEED == 305419896

Rand_new == Word(SEED)
\* <<the new val, the sample>>
Rand_next(val) ==
    LET nv == wrapping_add(wrapping_mul(Word(MULTIPLIER), val), Word(INCREMENT))
    IN  <<nv, BitAnd(Shr(nv, 16), Word(RANGE))>>

(***************************************************************************)
(* execution.rs: the dispatcher.  A machine x is                           *)
(*   [cpu, mem, rand, input, err, panicked];                               *)
(* every operation returns the machine at the point where it returns.      *)
(* IEEE-754 arithmetic is computed by the host: `f` is the pair of bit     *)
(* patterns the host's float operations of this step yield.  Comparisons   *)
(* of floats are computed on the bits.                                     *)
(***************************************************************************)
F32_NEG_ONE == <<0, 0, 128, 191>>
FloatIsNaN(v) == v[4] % 128 = 127 /\ v[3] >= 128 /\ (v[3] # 128 \/ v[2] # 0 \/ v[1] # 0)
FloatIsZero(v) == v[1] = 0 /\ v[2] = 0 /\ v[3] = 0 /\ v[4] % 128 = 0
FloatIsInf(v) == v[1] = 0 /\ v[2] = 0 /\ v[3] = 128 /\ v[4] % 128 = 127
FloatNeg(v) == [v EXCEPT ![4] = (@ + 128) % 256]
FloatMag(v) == [v EXCEPT ![4] = @ % 128]
\* f32 `a < b`
FloatLess(a, b) ==
    /\ ~FloatIsNaN(a) /\ ~FloatIsNaN(b)
    /\ ~(FloatIsZero(a) /\ FloatIsZero(b))
    /\ IF IsNeg(a) THEN (IF IsNeg(b) THEN LessSeq(FloatMag(b), FloatMag(a)) ELSE TRUE)
       ELSE (IF IsNeg(b) THEN FALSE ELSE LessSeq(a, b))
\* the names of sys_calls with their characters
SysCallNames ==
    { <<"print_u32", <<112, 114, 105, 110, 116, 95, 117, 51, 50>> >>,
      <<"print_i32", <<112, 114, 105, 110, 116, 95, 105, 51, 50>> >>,
      <<"print_f32", <<112, 114, 105, 110, 116, 95, 102, 51, 50>> >>,
      <<"print_u8", <<112, 114, 105, 110, 116, 95, 117, 56>> >>,
      <<"print_char", <<112, 114, 105, 110, 116, 95, 99, 104, 97, 114>> >>,
      <<"test_af", <<116, 101, 115, 116, 95, 97, 102>> >>,
      <<"test_au", <<116, 101, 115, 116, 95, 97, 117>> >>,
      <<"test_ai", <<116, 101, 115, 116, 95, 97, 105>> >>,
      <<"test_rf", <<116, 101, 115, 116, 95, 114, 102>> >>,
      <<"test_r", <<116, 101, 115, 116, 95, 114>> >>,
      <<"test_ri", <<116, 101, 115, 116, 95, 114, 105>> >>,
      <<"read_char", <<114, 101, 97, 100, 95, 99, 104, 97, 114>> >> }

RECURSIVE HashFold(_, _)
HashFold(h, chars) ==
    IF chars = <<>> THEN h
    ELSE HashFold(wrapping_add(wrapping_sub(Shl(h, 5), h), Word(chars[1])), Tail(chars))

\* hash folding h := 33 * h + c
RECURSIVE HashFold33(_, _)
HashFold33(h, chars) ==
    IF chars = <<>> THEN h
    ELSE HashFold33(wrapping_add(wrapping_add(Shl(h, 5), h), Word(chars[1])), Tail(chars))
hash_33(chars) == IF chars = <<>> THEN Word(0) ELSE HashFold33(Word(chars[1]), Tail(chars))

hash(chars) == IF chars = <<>> THEN Word(0) ELSE HashFold(Word(chars[1]), Tail(chars))

\* the pairs <<hash, name>> inserted by new_with_rom
sys_call_map == {<<hash(sc[2]), sc[1]>> : sc \in SysCallNames}

Fail(x, e) == [x EXCEPT !.err = e]
Panic(x) == [x EXCEPT !.panicked = TRUE]
SetR(x, val) == [x EXCEPT !.cpu.r = val]

\* `to.write(&mut self.memory, &mut self.cpu, val)?`
WriteTo(x, to, val) ==
    LET w == Writable_write(to, x.mem, x.cpu, val)
    IN  [x EXCEPT !.cpu = w.cpu, !.mem = w.mem, !.err = w.err]

\* `to.write(..., val)?; self.cpu.r = r;`
WriteThenR(x, to, val, r) ==
    LET w == WriteTo(x, to, val)
    IN  IF w.err # NoError THEN w ELSE SetR(w, r)

\* sys_call whose read_char leaves the byte in the input
sys_call_peek(x, val) ==
    IF \E e \in sys_call_map : e[1] = val
    THEN LET str == (CHOOSE e \in sys_call_map : e[1] = val)[2]
         IN  IF str = "read_char"
             THEN IF x.input # <<>>
                  THEN [x EXCEPT !.cpu.o = <<Head(x.input), 0, 0, 0>>]
                  ELSE Fail(x, Tx8Error("NoInputGiven"))
             ELSE x
    ELSE Fail(x, Tx8Error("InvalidSysCall"))

sys_call(x, val) ==
    IF \E e \in sys_call_map : e[1] = val
    THEN LET str == (CHOOSE e \in sys_call_map : e[1] = val)[2]
         IN  IF str = "read_char"
             THEN IF x.input # <<>>
                  THEN [x EXCEPT !.cpu.o = <<Head(x.input), 0, 0, 0>>, !.input = Tail(x.input)]
                  ELSE Fail(x, Tx8Error("NoInputGiven"))
             ELSE x
    ELSE Fail(x, Tx8Error("InvalidSysCall"))

\* a jump that reads r as unsigned
jump_unsigned(x, val, comp, instr_len) ==
    LET cond == CASE comp = "None" -> TRUE
                  [] comp = "Equal" -> IsZero(x.cpu.r)
                  [] comp = "NotEqual" -> ~IsZero(x.cpu.r)
                  [] comp = "Greater" -> ~IsZero(x.cpu.r)
                  [] comp = "GreaterEqual" -> TRUE
                  [] comp = "Less" -> FALSE
                  [] comp = "LessEqual" -> IsZero(x.cpu.r)
    IN  IF cond THEN [x EXCEPT !.cpu.p = val]
        ELSE [x EXCEPT !.cpu.p = wrapping_add(@, Word(instr_len))]

jump(x, val, comp, instr_len) ==
    LET r == ToSigned(x.cpu.r)
        cond == CASE comp = "None" -> TRUE
                  [] comp = "Equal" -> r = 0
                  [] comp = "NotEqual" -> r # 0
                  [] comp = "Greater" -> r > 0
                  [] comp = "GreaterEqual" -> r >= 0
                  [] comp = "Less" -> r < 0
                  [] comp = "LessEqual" -> r <= 0
    IN  IF cond THEN [x EXCEPT !.cpu.p = val]
        ELSE [x EXCEPT !.cpu.p = wrapping_add(@, Word(instr_len))]

compare_signed(x, val, val2) ==
    LET n == Size_bytes(val.size)
    IN  SetR(x, SignExt(signum(wrapping_sub(Trunc(val.val, n), Trunc(val2, n))), 4))

\* f32::signum(a - b) as i32 as u32: NaN gives 0, a zero difference its sign
compare_float(x, val, val2) ==
    SetR(x, CASE FloatIsNaN(val) \/ FloatIsNaN(val2) -> Word(0)
              [] FloatIsInf(val) /\ val = val2 -> Word(0)
              [] FloatLess(val, val2) -> OnesSeq(4)
              [] FloatLess(val2, val) -> Word(1)
              [] FloatIsZero(val) /\ IsNeg(val) /\ ~IsNeg(val2) -> OnesSeq(4)
              [] OTHER -> Word(1))

\* a compare that subtracts as i32
compare_unsigned_i32(x, val, val2) == SetR(x, signum(wrapping_sub(val, val2)))

compare_unsigned(x, val, val2) ==
    SetR(x, Trunc(signum(wrapping_sub(ZeroExt(val, 8), ZeroExt(val2, 8))), 4))

\* load writing every value at 4 bytes
load_int(x, to, val) ==
    LET w == Writable_write_size(to, x.mem, x.cpu, val.val, "Int")
    IN  [x EXCEPT !.cpu = w.cpu, !.mem = w.mem, !.err = w.err]

load(x, to, val) ==
    LET w == Writable_write_size(to, x.mem, x.cpu, val.val, val.size)
    IN  [x EXCEPT !.cpu = w.cpu, !.mem = w.mem, !.err = w.err]

\* push writing at s before it decrements s
push_post(x, val) ==
    LET s == wrapping_sub(x.cpu.s, Word(Size_bytes(val.size)))
        mem == CASE val.size = "Byte" ->
                      write_byte(x.mem, x.cpu.s, Trunc(BitAnd(val.val, <<255, 0, 0, 0>>), 1)).array
                 [] val.size = "Short" ->
                      write_short(x.mem, x.cpu.s,
                                  Trunc(BitAnd(val.val, <<255, 255, 0, 0>>), 2)).array
                 [] val.size = "Int" -> write_int(x.mem, x.cpu.s, val.val).array
    IN  [x EXCEPT !.cpu.s = s, !.mem = mem]

push(x, val) ==
    LET s == wrapping_sub(x.cpu.s, Word(Size_bytes(val.size)))
        mem == CASE val.size = "Byte" ->
                      write_byte(x.mem, s, Trunc(BitAnd(val.val, <<255, 0, 0, 0>>), 1)).array
                 [] val.size = "Short" ->
                      write_short(x.mem, s, Trunc(BitAnd(val.val, <<255, 255, 0, 0>>), 2)).array
                 [] val.size = "Int" -> write_int(x.mem, s, val.val).array
    IN  [x EXCEPT !.cpu.s = s, !.mem = mem]

pop(x, val) ==
    LET size == Writable_size(val)
        value == CASE size = "Byte" -> ZeroExt(read_byte(x.mem, x.cpu.s), 4)
                   [] size = "Short" -> ZeroExt(read_short(x.mem, x.cpu.s), 4)
                   [] size = "Int" -> read_int(x.mem, x.cpu.s)
        w == WriteTo(x, val, value)
    IN  IF w.err # NoError THEN w
        ELSE [w EXCEPT !.cpu.s = wrapping_add(@, Word(Size_bytes(size)))]

call(x, val, len) ==
    LET pushed == push(x, Value_new(wrapping_add(x.cpu.p, Word(len)), "Int"))
    IN  [pushed EXCEPT !.cpu.p = val.val]

ret(x) ==
    LET val == read_int(x.mem, x.cpu.s)
    IN  [x EXCEPT !.cpu.s = wrapping_add(@, Word(4)), !.cpu.p = val]

\* `first.val as i8`, `as u16`, ...: the operand at the width of to.size()
Narrow(v, size) == Trunc(v, Size_bytes(size))
\* (res as i32, over) and (res as u32, over) of the arms of add and sub
SizedSigned(ro) == <<SignExt(ro[1], 4), ro[2]>>
SizedUnsigned(ro) == <<ZeroExt(ro[1], 4), ro[2]>>

OverflowFlags(overflow, overflow_signed) ==
    Word((IF overflow THEN 1 ELSE 0) + (IF overflow_signed THEN 2 ELSE 0))

add(x, to, first, second, kind, f) ==
    LET n1 == Narrow(first.val, Writable_size(to))
        n2 == Narrow(second.val, Writable_size(to))
        sg == SizedSigned(overflowing_add_signed(n1, n2))
        us == SizedUnsigned(overflowing_add_unsigned(n1, n2))
    IN  CASE kind = "Signed" -> WriteThenR(x, to, sg[1], OverflowFlags(us[2], sg[2]))
          [] kind = "Unsigned" -> WriteThenR(x, to, us[1], OverflowFlags(us[2], sg[2]))
          [] kind = "Float" -> WriteTo(x, to, f[1])

sub(x, to, first, second, kind, f) ==
    LET n1 == Narrow(first.val, Writable_size(to))
        n2 == Narrow(second.val, Writable_size(to))
        sg == SizedSigned(overflowing_sub_signed(n1, n2))
        us == SizedUnsigned(overflowing_sub_unsigned(n1, n2))
    IN  CASE kind = "Signed" -> WriteThenR(x, to, sg[1], OverflowFlags(us[2], sg[2]))
          [] kind = "Unsigned" -> WriteThenR(x, to, us[1], OverflowFlags(us[2], sg[2]))
          [] kind = "Float" -> WriteTo(x, to, f[1])

\* mul extending both operands with zeros whatever the type
mul_zero_extended(x, to, val, val2, kind, f) ==
    CASE kind \in {"Signed", "Unsigned"} ->
            LET res == wrapping_mul(ZeroExt(val.val, 8), ZeroExt(val2.val, 8))
            IN  WriteThenR(x, to, Trunc(res, 4), SubSeq(res, 5, 8))
      [] kind = "Float" -> WriteTo(x, to, f[1])

mul(x, to, val, val2, kind, f) ==
    CASE kind = "Signed" ->
            LET res == wrapping_mul(SignExt(val.val, 8), SignExt(val2.val, 8))
            IN  WriteThenR(x, to, Trunc(res, 4), SubSeq(res, 5, 8))
      [] kind = "Unsigned" ->
            LET res == wrapping_mul(ZeroExt(val.val, 8), ZeroExt(val2.val, 8))
            IN  WriteThenR(x, to, Trunc(res, 4), SubSeq(res, 5, 8))
      [] kind = "Float" -> WriteTo(x, to, f[1])

\* the body of div after the check of the divisor
div_results(x, to, val, val2, kind, is_div, f) ==
    IF kind = "Signed" /\ DivOverflows(val.val, val2.val) THEN Panic(x)
    ELSE LET res == CASE kind = "Signed" -> sdiv(val.val, val2.val)
                      [] kind = "Unsigned" -> udiv(val.val, val2.val)
                      [] kind = "Float" -> f[1]
             remainder == CASE kind = "Signed" -> srem(val.val, val2.val)
                            [] kind = "Unsigned" -> urem(val.val, val2.val)
                            [] kind = "Float" -> f[2]
         IN  IF is_div THEN WriteThenR(x, to, res, remainder)
             ELSE WriteThenR(x, to, remainder, res)

\* a div that checks the divisor of every type
div_any_kind(x, to, val, val2, kind, is_div, f) ==
    IF IsZero(val2.val) THEN Fail(x, Tx8Error("DivisionByZero"))
    ELSE div_results(x, to, val, val2, kind, is_div, f)

div(x, to, val, val2, kind, is_div, f) ==
    IF kind # "Float" /\ IsZero(val2.val) THEN Fail(x, Tx8Error("DivisionByZero"))
    ELSE div_results(x, to, val, val2, kind, is_div, f)

max_min(x, to, val, val2, kind, is_max) ==
    LET gt == CASE kind = "Signed" -> ToSigned(val.val) > ToSigned(val2.val)
                [] kind = "Unsigned" -> LessSeq(val2.val, val.val)
                [] kind = "Float" -> FloatLess(val2.val, val.val)
        max == IF gt THEN val.val ELSE val2.val
        min == IF gt THEN val2.val ELSE val.val
    IN  IF is_max THEN WriteThenR(x, to, max, min) ELSE WriteThenR(x, to, min, max)

\* abs_sign giving the sign +1 to every value that is not 0
abs_sign_positive(x, to, val, kind, is_abs) ==
    IF kind = "Unsigned" THEN Panic(x)
    ELSE LET rs == IF IsZero(val.val) THEN <<val.val, Word(0)>> ELSE <<val.val, Word(1)>>
         IN  IF is_abs THEN WriteThenR(x, to, rs[1], rs[2])
             ELSE WriteThenR(x, to, rs[2], rs[1])

abs_sign(x, to, val, kind, is_abs) ==
    IF kind = "Unsigned" THEN Panic(x)
    ELSE LET rs == CASE kind = "Signed" ->
                        IF IsZero(val.val) THEN <<val.val, Word(0)>>
                        ELSE IF IsNeg(val.val) THEN <<wrapping_neg(val.val), OnesSeq(4)>>
                        ELSE <<val.val, Word(1)>>
                     [] kind = "Float" ->
                        IF FloatIsZero(val.val) THEN <<val.val, Word(0)>>
                        ELSE IF FloatLess(val.val, Word(0))
                        THEN <<FloatNeg(val.val), F32_NEG_ONE>>
                        ELSE <<val.val, F32_ONE>>
         IN  IF is_abs THEN WriteThenR(x, to, rs[1], rs[2])
             ELSE WriteThenR(x, to, rs[2], rs[1])

and(x, to, val, val2) == WriteTo(x, to, BitAnd(val.val, val2.val))
or(x, to, val, val2) == WriteTo(x, to, BitOr(val.val, val2.val))
not(x, to, val) == WriteTo(x, to, NotSeq(val.val))
nand(x, to, val, val2) == WriteTo(x, to, NotSeq(BitAnd(val.val, val2.val)))
xor(x, to, val, val2) == WriteTo(x, to, BitXor(val.val, val2.val))

\* `val2.val & filter` with the filter of a size, as a number
ShiftAmount(size, val2) ==
    CASE size = "Byte" -> val2.val[1] % 8
      [] size = "Short" -> val2.val[1] % 16
      [] size = "Int" -> val2.val[1] % 32
\* (1 << i) - 1
LowMask(i) == wrapping_sub(Shl(Word(1), i), Word(1))

slr(x, to, val, val2) ==
    LET shift_amount == ShiftAmount(Writable_size(to), val2)
    IN  WriteThenR(x, to, Shr(val.val, shift_amount), BitAnd(val.val, LowMask(shift_amount)))

sar(x, to, val, val2) ==
    LET size == Writable_size(to)
        shift_amount == ShiftAmount(size, val2)
        res == SignExt(Sar(Trunc(val.val, Size_bytes(size)), shift_amount), 4)
    IN  WriteThenR(x, to, res, BitAnd(val.val, LowMask(shift_amount)))

\* sll leaving in r the low bits of the value, as slr does
sll_low(x, to, val, val2) ==
    LET shift_amount == ShiftAmount(Writable_size(to), val2)
    IN  WriteThenR(x, to, Shl(val.val, shift_amount), BitAnd(val.val, LowMask(shift_amount)))

sll(x, to, val, val2) ==
    LET size == Writable_size(to)
        shift_amount == ShiftAmount(size, val2)
        shifted_out == IF shift_amount = 0 THEN Word(0)
                       ELSE Shr(val.val, 8 * Size_bytes(size) - shift_amount)
    IN  WriteThenR(x, to, Shl(val.val, shift_amount), shifted_out)

ror(x, to, val, val2) ==
    LET n == Size_bytes(Writable_size(to))
    IN  WriteTo(x, to, ZeroExt(rotate_right(Trunc(val.val, n), val2.val[1] % (8 * n)), 4))

rol(x, to, val, val2) ==
    LET n == Size_bytes(Writable_size(to))
    IN  WriteTo(x, to, ZeroExt(rotate_left(Trunc(val.val, n), val2.val[1] % (8 * n)), 4))

\* r after set, clear, toggle and test: whether bit i of val was set
BitFlag(val, i) == IF IsZero(BitAnd(val.val, Shl(Word(1), i))) THEN Word(0) ELSE Word(1)

set(x, to, val, val2) ==
    LET i == ShiftAmount(Writable_size(to), val2)
    IN  WriteThenR(x, to, BitOr(val.val, Shl(Word(1), i)), BitFlag(val, i))

clear(x, to, val, val2) ==
    LET i == ShiftAmount(Writable_size(to), val2)
    IN  WriteThenR(x, to, BitAnd(val.val, NotSeq(Shl(Word(1), i))), BitFlag(val, i))

toggle(x, to, val, val2) ==
    LET i == ShiftAmount(Writable_size(to), val2)
    IN  WriteThenR(x, to, BitXor(val.val, Shl(Word(1), i)), BitFlag(val, i))

test(x, val, val2) == SetR(x, BitFlag(val, ShiftAmount(val.size, val2)))

\* sin, cos, tan, arcsin, arccos, arctan, arctan2, sqrt, pow, exp, log, log2,
\* log10, i_to_f, f_to_i, u_to_f, f_to_f: the host's result is written to dst
float_intrinsic(x, to, f) == WriteTo(x, to, f[1])

rand(x, to, f) ==
    LET nx == Rand_next(x.rand)
    IN  WriteThenR([x EXCEPT !.rand = nx[1]], to, f[1], nx[2])

rseed(x, val) == [x EXCEPT !.rand = val.val]

\* the result of execute_instruction: the machine and, when x.err is NoError and
\* x.panicked is FALSE, the Effect
Done(x, effect) == [x |-> x, effect |-> effect]

execute_instruction(x, instr, len, f) ==
    LET t == instr.tag
    IN  CASE t = "Halt" -> Done(x, "Halted")
          [] t = "Nop" -> Done(x, "None")
          [] t = "Jump" -> Done(jump(x, instr.val.val, instr.comp, len), "None")
          [] t = "CompareSigned" -> Done(compare_signed(x, instr.val, instr.val2.val), "None")
          [] t = "CompareFloat" -> Done(compare_float(x, instr.val.val, instr.val2.val), "None")
          [] t = "CompareUnsigned" ->
                Done(compare_unsigned(x, instr.val.val, instr.val2.val), "None")
          [] t = "Call" -> Done(call(x, instr.val, len), "None")
          [] t = "SysCall" -> Done(sys_call(x, instr.val.val), "None")
          [] t = "Return" -> Done(ret(x), "None")
          [] t = "Load" -> Done(load(x, instr.to, instr.val), "None")
          [] t = "Push" -> Done(push(x, instr.val), "None")
          [] t = "Pop" -> Done(pop(x, instr.to), "None")
          [] t = "Add" -> Done(add(x, instr.to, instr.val, instr.val2, instr.kind, f), "None")
          [] t = "Sub" -> Done(sub(x, instr.to, instr.val, instr.val2, instr.kind, f), "None")
          [] t = "Mul" -> Done(mul(x, instr.to, instr.val, instr.val2, instr.kind, f), "None")
          [] t = "DivMod" ->
                Done(div(x, instr.to, instr.val, instr.val2, instr.kind, instr.flag, f), "None")
          [] t = "MaxMin" ->
                Done(max_min(x, instr.to, instr.val, instr.val2, instr.kind, instr.flag), "None")
          [] t = "AbsSign" ->
                Done(abs_sign(x, instr.to, instr.val, instr.kind, instr.flag), "None")
          [] t = "And" -> Done(and(x, instr.to, instr.val, instr.val2), "None")
          [] t = "Or" -> Done(or(x, instr.to, instr.val, instr.val2), "None")
          [] t = "Not" -> Done(not(x, instr.to, instr.val), "None")
          [] t = "Nand" -> Done(nand(x, instr.to, instr.val, instr.val2), "None")
          [] t = "Xor" -> Done(xor(x, instr.to, instr.val, instr.val2), "None")
          [] t = "ShiftLogicalRight" -> Done(slr(x, instr.to, instr.val, instr.val2), "None")
          [] t = "ShiftArithRight" -> Done(sar(x, instr.to, instr.val, instr.val2), "None")
          [] t = "ShiftLogicLeft" -> Done(sll(x, instr.to, instr.val, instr.val2), "None")
          [] t = "RotateRight" -> Done(ror(x, instr.to, instr.val, instr.val2), "None")
          [] t = "RotateLeft" -> Done(rol(x, instr.to, instr.val, instr.val2), "None")
          [] t = "Set" -> Done(set(x, instr.to, instr.val, instr.val2), "None")
          [] t = "Clear" -> Done(clear(x, instr.to, instr.val, instr.val2), "None")
          [] t = "Toggle" -> Done(toggle(x, instr.to, instr.val, instr.val2), "None")
          [] t = "Test" -> Done(test(x, instr.val, instr.val2), "None")
          [] t \in {"Sin", "Cos", "Tan", "ArcSin", "ArcCos", "ArcTan", "ArcTan2", "Sqrt", "Pow",
                    "Exp", "Log", "Log2", "Log10", "ItoF", "FtoI", "UtoF", "FtoU"} ->
                Done(float_intrinsic(x, instr.to, f), "None")
          [] t = "Rand" -> Done(rand(x, instr.to, f), "None")
          [] t = "RSeed" -> Done(rseed(x, instr.val), "None")

\* whether the step asks the host for float arithmetic
UsesHostFloat(instr) ==
    \/ instr.tag \in {"Add", "Sub", "Mul", "DivMod"} /\ instr.kind = "Float"
    \/ instr.tag \in {"Sin", "Cos", "Tan", "ArcSin", "ArcCos", "ArcTan", "ArcTan2", "Sqrt", "Pow",
                      "Exp", "Log", "Log2", "Log10", "ItoF", "FtoI", "UtoF", "FtoU", "Rand"}

\* next_step advancing p by one byte whatever the length decoded
Executed_one(instruction, len, ex) ==
    [x |-> IF ex.x.err # NoError \/ ex.x.panicked THEN ex.x
           ELSE IF increase_program_counter(instruction)
           THEN [ex.x EXCEPT !.cpu.p = wrapping_add(@, Word(1))]
           ELSE ex.x,
     effect |-> ex.effect, decoded |-> TRUE, instr |-> instruction, len |-> len]

\* `if instruction.increase_program_counter() { self.cpu.p += len }` after a
\* successful execute_instruction; ex is what execute_instruction returned
Executed(instruction, len, ex) ==
    [x |-> IF ex.x.err # NoError \/ ex.x.panicked THEN ex.x
           ELSE IF increase_program_counter(instruction)
           THEN [ex.x EXCEPT !.cpu.p = wrapping_add(@, Word(len))]
           ELSE ex.x,
     effect |-> ex.effect, decoded |-> TRUE, instr |-> instruction, len |-> len]

\* next_step after `parse_instruction(..)?`; parsed is what parse_instruction returned
Parsed(x, parsed, f) ==
    IF ~IsOk(parsed)
    THEN [x |-> Fail(x, parsed.err), effect |-> "None", decoded |-> FALSE,
          instr |-> no_params("Nop"), len |-> 0]
    ELSE Executed(parsed.v[1], parsed.v[2],
                  execute_instruction(x, parsed.v[1], parsed.v[2], f))

\* next_step: [x, effect, decoded, instr, len]; decoded is FALSE when
\* parse_instruction returned the error
next_step(x, f) == Parsed(x, parse_instruction(x.cpu, x.mem, x.cpu.p), f)

(***************************************************************************)
(* The machine under the driver loop of run_code.                          *)
(*   cpu, memory, rand, input : the fields of Execution                    *)
(*   status : "Running" while the loop runs, "Halted" after Effect::Halted,*)
(*            the kind of the Tx8Error next_step returned, or "Panicked"   *)
(*            when the step aborted the process                            *)
(*   hist   : one record per call of next_step, with the registers and     *)
(*            memory before and after it                                   *)
(***************************************************************************)
VARIABLES cpu, memory, rand_val, input, status, hist, rom

vars == <<cpu, memory, rand_val, input, status, hist, rom>>

\* the longest run that is followed
MaxSteps == 5
\* how many of the operand values are used
NumVals == 6

\* bit patterns the host's float arithmetic may yield: 1.0 and NaN
HostFloats == {F32_ONE, <<0, 0, 192, 127>>}
HostResults(parsed) ==
    IF IsOk(parsed) /\ UsesHostFloat(parsed.v[1])
    THEN HostFloats \X HostFloats ELSE {<<Word(0), Word(0)>>}

Machine == [cpu |-> cpu, mem |-> memory, rand |-> rand_val, input |-> input,
            err |-> NoError, panicked |-> FALSE]

Outcome(ns) ==
    IF ns.x.panicked THEN "Panicked"
    ELSE IF ns.x.err # NoError THEN ns.x.err.kind
    ELSE ns.effect

\* the fields of Execution after the call whose result is ns
Returned(ns) ==
    /\ cpu' = ns.x.cpu
    /\ memory' = ns.x.mem
    /\ rand_val' = ns.x.rand
    /\ input' = ns.x.input
    /\ status' = IF Outcome(ns) = "None" THEN "Running" ELSE Outcome(ns)
    /\ hist' = Append(hist, [pre |-> [cpu |-> cpu, mem |-> memory], input |-> input,
                             post |-> [cpu |-> ns.x.cpu, mem |-> ns.x.mem],
                             decoded |-> ns.decoded, instr |-> ns.instr,
                             len |-> ns.len, err |-> ns.x.err, out |-> Outcome(ns)])
    /\ UNCHANGED rom

\* the loop of run_code going on after a Halted or an error
NextStep_unchecked ==
    /\ Len(hist) < MaxSteps
    /\ \E f \in HostResults(parse_instruction(cpu, memory, cpu.p)) :
          Returned(next_step(Machine, f))

\* one iteration of the loop of run_code: `execution.next_step()?`
NextStep ==
    /\ status = "Running"
    /\ Len(hist) < MaxSteps
    /\ \E f \in HostResults(parse_instruction(cpu, memory, cpu.p)) :
          Returned(next_step(Machine, f))

Next == NextStep

(***************************************************************************)
(* ROM payloads: programs assembled from the opcode table.                 *)
(***************************************************************************)
OpByte(name) == (CHOOSE e \in OpCodes : e[2] = name)[1]

Par(mode, bytes) == [mode |-> mode, bytes |-> bytes]
PUnused == Par(0, <<>>)
PConst8(v) == Par(1, Trunc(v, 1))
PConst16(v) == Par(2, Trunc(v, 2))
PConst32(v) == Par(3, v)
PAbs(v) == Par(4, Trunc(v, 3))
PRel(v) == Par(5, Trunc(v, 3))
PReg(b) == Par(6, <<b>>)
PRegAddr(b) == Par(7, <<b>>)

Encode(name, p1, p2) == <<OpByte(name), 16 * p1.mode + p2.mode>> \o p1.bytes \o p2.bytes

\* operand values: the extremes of every width
Vals == << Word(0), Word(1), OnesSeq(4), <<0, 0, 0, 128>>, <<255, 255, 255, 127>>,
           <<120, 86, 52, 18>>, <<127, 128, 0, 0>>, <<128, 127, 1, 0>>,
           <<0, 128, 0, 0>>, <<255, 127, 0, 0>>, <<7, 0, 0, 0>> >>
Values == {Vals[i] : i \in {j \in DOMAIN Vals : j <= NumVals}}

\* the state after Execution::new_with_rom(data) with the bytes of stdin
Constructed(data, stdin) ==
    /\ cpu = Cpu_new
    /\ memory = load_rom(data)
    /\ rand_val = Rand_new
    /\ input = stdin
    /\ status = "Running"
    /\ hist = <<>>
    /\ rom = Bytes(data, 0)

\* operands of a program under test: a kind and, for registers, the register byte
OReg(b) == [k |-> "Register", b |-> b]
ORegAddr(b) == [k |-> "RegisterAddress", b |-> b]
OAbs == [k |-> "AbsoluteAddress", b |-> 0]
ORel == [k |-> "RelativeAddress", b |-> 0]
OConst8 == [k |-> "Constant8", b |-> 0]
OConst16 == [k |-> "Constant16", b |-> 0]
OConst32 == [k |-> "Constant32", b |-> 0]

\* the address memory operands use
ScratchAddr == <<0, 1, 0, 0>>

\* the encoded parameter of operand o; v is the value of a constant
ParOf(o, v) ==
    CASE o.k = "Register" -> PReg(o.b)
      [] o.k = "RegisterAddress" -> PRegAddr(o.b)
      [] o.k = "AbsoluteAddress" -> PAbs(ScratchAddr)
      [] o.k = "RelativeAddress" -> PRel(ScratchAddr)
      [] o.k = "Constant8" -> PConst8(v)
      [] o.k = "Constant16" -> PConst16(v)
      [] o.k = "Constant32" -> PConst32(v)

\* LoadWord of v into the full width of the place operand o names
Setup(o, v) ==
    CASE o.k = "Register" /\ o.b % 16 <= 7 -> Encode("LoadWord", PReg(o.b % 16), PConst32(v))
      [] o.k \in {"RegisterAddress", "AbsoluteAddress", "RelativeAddress"} /\ o.b % 16 <= 7 ->
            Encode("LoadWord", ParOf(o, v), PConst32(v))
      [] OTHER -> <<>>

\* dst := v; src := w; op dst, src; Halt
BinProgram(op, dst, src, v, w) ==
    Setup(dst, v) \o Setup(src, w) \o Encode(op, ParOf(dst, v), ParOf(src, w)) \o <<OpByte("Halt")>>

DivOps == {"Div", "Mod", "DivUnsigned", "ModUnsigned"}
DivFloatOps == {"DivFloat", "ModFloat"}
DivShapes ==
    { <<OReg(0), OReg(1)>>, <<OReg(16), OReg(17)>>, <<OReg(32), OReg(33)>>,
      <<OReg(0), OConst8>>, <<OReg(4), OReg(1)>>, <<OReg(6), OReg(17)>>,
      <<OReg(49), OReg(1)>>, <<OAbs, OReg(33)>>, <<ORegAddr(2), OReg(1)>> }
DivPrograms ==
    {BinProgram(op, sh[1], sh[2], v, w) : op \in DivOps, sh \in DivShapes, v \in Values, w \in Values}
    \cup {BinProgram(op, sh[1], sh[2], v, w) :
             op \in DivFloatOps, sh \in {<<OReg(0), OReg(1)>>, <<OReg(49), OReg(1)>>, <<OAbs, OReg(1)>>},
             v \in Values, w \in {Word(0), F32_ONE}}

InitDiv == \E data \in DivPrograms : Constructed(data, <<>>)
SpecDiv == InitDiv /\ [][Next]_vars

\* CompareSigned / CompareUnsigned / CompareFloat of two equally wide operands
CompareOps == {"CompareSigned", "CompareUnsigned", "CompareFloat"}
CompareShapes ==
    { <<OReg(0), OReg(1)>>, <<OReg(16), OReg(17)>>, <<OReg(32), OReg(33)>>,
      <<OReg(0), OConst32>>, <<OAbs, OReg(17)>> }
ComparePrograms ==
    {BinProgram(op, sh[1], sh[2], v, w) :
        op \in CompareOps, sh \in CompareShapes, v \in Values, w \in Values}

InitCompare == \E data \in ComparePrograms : Constructed(data, <<>>)
SpecCompare == InitCompare /\ [][Next]_vars

\* integer Add and Sub on every kind of destination
AddOps == {"Add", "Sub", "AddUnsigned", "SubUnsigned"}
AddShapes ==
    { <<OReg(0), OReg(1)>>, <<OReg(16), OReg(17)>>, <<OReg(32), OReg(33)>>,
      <<OReg(0), OConst8>>, <<OReg(7), OReg(1)>>, <<OReg(6), OReg(1)>>, <<OReg(4), OReg(1)>>,
      <<OAbs, OReg(1)>>, <<ORegAddr(2), OReg(1)>> }
AddPrograms ==
    {BinProgram(op, sh[1], sh[2], v, w) : op \in AddOps, sh \in AddShapes, v \in Values, w \in Values}

InitAdd == \E data \in AddPrograms : Constructed(data, <<>>)
SpecAdd == InitAdd /\ [][Next]_vars

\* dst := w; Push v; Pop dst; Halt
StackProgram(src, dst, v, w) ==
    Setup(dst, w) \o Setup(src, v) \o Encode("Push", ParOf(src, v), PUnused)
        \o Encode("Pop", ParOf(dst, w), PUnused) \o <<OpByte("Halt")>>
StackShapes ==
    { <<OConst8, OReg(17)>>, <<OConst16, OReg(33)>>, <<OConst32, OReg(1)>>,
      <<OReg(16), OReg(17)>>, <<OReg(32), OReg(33)>>, <<OReg(0), OReg(1)>>,
      <<OConst32, OAbs>>, <<OConst32, ORel>>, <<OConst32, ORegAddr(2)>>,
      <<OConst32, OReg(7)>>, <<OConst32, OReg(4)>> }
StackPrograms ==
    {StackProgram(sh[1], sh[2], v, w) : sh \in StackShapes, v \in Values, w \in Values}

InitStack == \E data \in StackPrograms : Constructed(data, <<>>)
SpecStack == InitStack /\ [][Next]_vars

\* instructions that only write their result to the destination, on register aliases
AliasBytes == {16, 18, 20, 22, 23, 32, 33, 36, 38, 39}
AliasPrograms ==
    {BinProgram(op, OReg(b), OConst32, v, w) :
        op \in {"And", "Xor"}, b \in AliasBytes, v \in Values, w \in Values}
    \cup {Setup(OReg(b), v) \o Encode("Not", PReg(b), PUnused) \o <<OpByte("Halt")>> :
             b \in AliasBytes, v \in Values}

InitAlias == \E data \in AliasPrograms : Constructed(data, <<>>)
SpecAlias == InitAlias /\ [][Next]_vars

\* r := v; a := w; jump to an operand; Halt
JumpOps == {"Jump", "JumpEqual", "JumpNotEqual", "JumpGreaterThan", "JumpGreaterEqual",
            "JumpLessThan", "JumpLessEqual"}
JumpTargets == {OConst32, OReg(0), OReg(16), OConst16}
JumpPrograms ==
    {Setup(OReg(4), v) \o Setup(OReg(0), w) \o Encode(op, ParOf(t, w), PUnused)
        \o <<OpByte("Halt")>> : op \in JumpOps, t \in JumpTargets, v \in Values, w \in Values}

InitJump == \E data \in JumpPrograms : Constructed(data, <<>>)
SpecJump == InitJump /\ [][Next]_vars

\* a := v; [ScratchAddr] := v; then one instruction of every opcode on operands
\* that are malformed, invalid or zero
ErrBytes == {15, 31, 43, 255}
ErrOperands ==
    { <<PReg(49), PReg(1)>>, <<PRegAddr(49), PReg(1)>>, <<PReg(8), PReg(1)>>,
      <<PReg(0), PReg(9)>>, <<PConst8(Word(1)), PReg(1)>>, <<PUnused, PUnused>>,
      <<PReg(0), PConst8(Word(0))>>, <<PReg(0), Par(8, <<>>)>> }
ErrValues == {Vals[i] : i \in {j \in DOMAIN Vals : j <= NumVals /\ j % 3 = 0}}
ErrPrelude(v) == Setup(OReg(0), v) \o Setup(OAbs, v)
ErrPrograms ==
    {ErrPrelude(v) \o Encode(e[2], ps[1], ps[2]) : e \in OpCodes, ps \in ErrOperands, v \in ErrValues}
    \cup {ErrPrelude(v) \o <<b>> : b \in ErrBytes, v \in ErrValues}
\* two sys_calls of one number
SysCallPrograms ==
    {ErrPrelude(v) \o Encode("SysCall", PConst32(h), PUnused)
        \o Encode("SysCall", PConst32(h), PUnused) :
        h \in {e[1] : e \in sys_call_map} \cup {Word(0)}, v \in ErrValues}

InitErr ==
    \/ \E data \in ErrPrograms : Constructed(data, <<>>)
    \/ \E data \in SysCallPrograms, stdin \in {<<>>, <<65>>} : Constructed(data, stdin)
SpecErr == InitErr /\ [][Next]_vars

\* [t] := code; jump or call to t, for targets t at and above 0xFFFFF0: the
\* steps after the jump decode code at t
BoundTargets == { <<240, 255, 255, 0>>, <<241, 255, 255, 0>>, <<248, 255, 255, 0>>,
                  <<252, 255, 255, 0>>, <<255, 255, 255, 0>> }
BoundCode == { <<0, 0, 0, 0>>, <<1, 1, 1, 0>>, <<1, 15, 0, 0>>, <<2, 48, 0, 0>> }
BoundPrograms ==
    {Encode("LoadWord", PAbs(t), PConst32(code)) \o Encode(op, PConst32(t), PUnused) :
        op \in {"Jump", "Call"}, t \in BoundTargets, code \in BoundCode}

InitBound == \E data \in BoundPrograms : Constructed(data, <<>>)
SpecBound == InitBound /\ [][Next]_vars

\* dst := v; src := w; a Load-family instruction from src to dst; Halt. The
\* destinations are b and its aliases and the three memory forms, the sources
\* constants, a and its aliases and memory
LoadOps == {"Load", "LoadSigned", "LoadWord", "LoadWordSigned"}
StoreOps == {"StoreA", "StoreB", "StoreC", "StoreD", "Zero"}
LoadDsts == {OReg(1), OReg(17), OReg(33), OAbs, ORel, ORegAddr(2)}
LoadSrcs == {OConst8, OConst16, OConst32, OReg(0), OReg(16), OReg(32), ORegAddr(3)}
LoadPrograms ==
    {BinProgram(op, dst, src, v, w) :
        op \in LoadOps, dst \in LoadDsts, src \in LoadSrcs, v \in Values, w \in Values}
    \cup {Setup(dst, v) \o Setup(OReg(0), w) \o Setup(OReg(3), w)
             \o Encode(op, ParOf(dst, v), PUnused) \o <<OpByte("Halt")>> :
             op \in StoreOps, dst \in LoadDsts, v \in Values, w \in Values}

InitLoad == \E data \in LoadPrograms : Constructed(data, <<>>)
SpecLoad == InitLoad /\ [][Next]_vars

\* instructions that only write their result to the destination, on each of
\* the four writable forms
WriteDsts == {OAbs, ORel, ORegAddr(2), OReg(1), OReg(17), OReg(33)}
WritePrograms ==
    {BinProgram(op, dst, OConst32, v, w) :
        op \in {"And", "Xor"}, dst \in WriteDsts, v \in Values, w \in Values}
    \cup {Setup(dst, v) \o Encode("Not", ParOf(dst, v), PUnused) \o <<OpByte("Halt")>> :
             dst \in WriteDsts, v \in Values}

InitWrite == \E data \in WritePrograms : Constructed(data, <<>>)
SpecWrite == InitWrite /\ [][Next]_vars

\* s := sv; Call of the code after the Halt; Halt. The called code returns at
\* once, after a Nop, after overwriting the stored return address or after a Pop
CallStacks == { <<0, 32, 192, 0>>, <<0, 1, 0, 0>>, <<4, 0, 0, 0>>, <<2, 0, 0, 0>>,
                <<0, 0, 0, 1>>, <<1, 0, 0, 1>>, <<2, 0, 0, 1>>, <<3, 0, 0, 1>> }
CallTarget == <<14, 0, 64, 0>>
CallBodies ==
    { <<OpByte("Return")>>,
      <<OpByte("Nop"), OpByte("Return")>>,
      Encode("Zero", PRegAddr(7), PUnused) \o <<OpByte("Return")>>,
      Encode("Pop", PReg(16), PUnused) \o <<OpByte("Return")>> }
CallPrograms ==
    {Encode("LoadWord", PReg(7), PConst32(sv)) \o Encode("Call", PConst32(CallTarget), PUnused)
        \o <<OpByte("Halt")>> \o body : sv \in CallStacks, body \in CallBodies}

InitCall == \E data \in CallPrograms : Constructed(data, <<>>)
SpecCall == InitCall /\ [][Next]_vars

\* s := sv; Push v; Push w; Pop; Pop, the pops into registers of the widths
\* pushed, in reverse order
LifoStacks == { <<0, 32, 192, 0>>, <<0, 1, 0, 0>>, <<8, 0, 0, 0>>, <<2, 0, 0, 0>>,
                <<0, 0, 0, 0>>, <<3, 0, 0, 1>> }
LifoSrcs == {OConst8, OConst16, OConst32}
LifoWidth(src) == CASE src = OConst8 -> 1 [] src = OConst16 -> 2 [] src = OConst32 -> 4
\* the alias of register n that is w bytes wide
LifoReg(n, w) == CASE w = 1 -> OReg(16 + n) [] w = 2 -> OReg(32 + n) [] w = 4 -> OReg(n)
LifoPrograms ==
    {Encode("LoadWord", PReg(7), PConst32(sv))
        \o Encode("Push", ParOf(s1, v), PUnused) \o Encode("Push", ParOf(s2, w), PUnused)
        \o Encode("Pop", ParOf(LifoReg(n2, LifoWidth(s2)), w), PUnused)
        \o Encode("Pop", ParOf(LifoReg(n1, LifoWidth(s1)), v), PUnused) :
        sv \in LifoStacks, s1 \in LifoSrcs, s2 \in LifoSrcs, v \in Values, w \in Values,
        n1 \in {1}, n2 \in {1, 2, 7}}

InitLifo == \E data \in LifoPrograms : Constructed(data, <<>>)
SpecLifo == InitLifo /\ [][Next]_vars

\* dst := v; a shift of dst by a constant; Halt
ShiftOps == {"ShiftLogicalRight", "ShiftArithRight", "ShiftLogicLeft"}
ShiftDsts == {OReg(1), OReg(17), OReg(33), OReg(4), OAbs, ORegAddr(2)}
ShiftAmounts == {Word(0), Word(1), Word(4), Word(7), Word(9), Word(31), Word(36)}
ShiftPrograms ==
    {BinProgram(op, dst, OConst8, v, k) :
        op \in ShiftOps, dst \in ShiftDsts, v \in Values, k \in ShiftAmounts}

InitShift == \E data \in ShiftPrograms : Constructed(data, <<>>)
SpecShift == InitShift /\ [][Next]_vars

\* dst := v; src := w; Mul or MulUnsigned of dst by src; Halt; and a Mul of p
MulOps == {"Mul", "MulUnsigned"}
MulDsts == {OReg(1), OReg(5), OReg(7)}
MulSrcs == {OConst32, OConst8, OReg(2)}
MulPrograms ==
    {BinProgram(op, dst, src, v, w) :
        op \in MulOps, dst \in MulDsts, src \in MulSrcs, v \in Values, w \in Values}
    \cup {Encode(op, PReg(6), PConst32(w)) \o <<OpByte("Halt")>> : op \in MulOps, w \in Values}

InitMul == \E data \in MulPrograms : Constructed(data, <<>>)
SpecMul == InitMul /\ [][Next]_vars

\* dst := v; Abs or Sign of dst; Halt; and an Abs or Sign of p
AbsOps == {"Abs", "Sign"}
AbsDsts == {OReg(0), OReg(1), OReg(2), OReg(3), OReg(5), OReg(7)}
AbsPrograms ==
    {Setup(dst, v) \o Encode(op, ParOf(dst, v), PUnused) \o <<OpByte("Halt")>> :
        op \in AbsOps, dst \in AbsDsts, v \in Values}
    \cup {Encode(op, PReg(6), PUnused) \o <<OpByte("Halt")>> : op \in AbsOps}

InitAbs == \E data \in AbsPrograms : Constructed(data, <<>>)
SpecAbs == InitAbs /\ [][Next]_vars

\* three sys_calls in a row on an input of up to two bytes. The numbers are the
\* twelve that h := 31 * h + c gives for the names, in the order of the names in
\* new_with_rom, and numbers next to them
NameNumbers ==
    << <<2, 129, 233, 148>>, <<246, 83, 233, 148>>, <<179, 72, 233, 148>>,
       <<53, 37, 123, 186>>, <<168, 61, 63, 8>>, <<242, 10, 55, 171>>, <<1, 11, 55, 171>>,
       <<245, 10, 55, 171>>, <<1, 13, 55, 171>>, <<5, 116, 183, 203>>, <<4, 13, 55, 171>>,
       <<95, 128, 154, 189>> >>
ReadCharNumber == NameNumbers[12]
OtherNumbers == { <<0, 0, 0, 0>>, <<255, 255, 255, 255>>, <<96, 128, 154, 189>>,
                  <<95, 128, 154, 0>>, <<114, 0, 0, 0>> }
SysNumbers == {NameNumbers[i] : i \in DOMAIN NameNumbers} \cup OtherNumbers
SysInputs == { <<>>, <<65>>, <<200, 7>> }
SysPrograms ==
    {Encode("SysCall", PConst32(h1), PUnused) \o Encode("SysCall", PConst32(h2), PUnused)
        \o Encode("SysCall", PConst32(h3), PUnused) :
        h1 \in SysNumbers, h2 \in {ReadCharNumber, NameNumbers[1], <<0, 0, 0, 0>>},
        h3 \in {ReadCharNumber, NameNumbers[6]}}

InitSys == \E data \in SysPrograms, stdin \in SysInputs : Constructed(data, stdin)
SpecSys == InitSys /\ [][Next]_vars

\* one instruction of every opcode byte and every parameter-mode byte, followed by
\* operand bytes that name the registers b and c, or the invalid register byte 8
DecodeModes == {0, 9, 99, 102, 144}
DecodeOps == {"Nop", "Return", "Jump", "Push", "CompareUnsigned", "Pop", "LoadWord", "Not",
              "Add"}
DecodeTails == {<<1, 2, 0, 0, 0, 0, 0, 0, 0>>, <<8, 2, 0, 0, 0, 0, 0, 0, 0>>}
DecodePrograms ==
    {<<b, m>> \o <<1, 2, 0, 0, 0, 0, 0, 0, 0>> : b \in 0..255, m \in DecodeModes}
    \cup {<<OpByte(op), m>> \o tail : op \in DecodeOps, m \in 0..255, tail \in DecodeTails}

InitDecode == \E data \in DecodePrograms : Constructed(data, <<>>)
SpecDecode == InitDecode /\ [][Next]_vars

(***************************************************************************)
(* lib.rs: run_code from the file on. parse_rom checks the header and      *)
(* returns the payload, new_with_rom loads it, then the loop steps.        *)
(***************************************************************************)
\* u16::from_le_bytes and u32::from_le_bytes, for lengths below 2^31
from_le_bytes(b) ==
    IF Len(b) = 2 THEN b[1] + 256 * b[2] ELSE Low24(b) + 16777216 * b[4]

\* std::str::from_utf8: the bytes of the UTF-8 sequence that starts at b[i], or 0
\* when no well-formed sequence starts there
Utf8Width(b, i) ==
    LET n == Len(b)
        Cont(k) == k <= n /\ b[k] \in 128..191
    IN  CASE b[i] < 128 -> 1
          [] b[i] \in 194..223 -> IF Cont(i + 1) THEN 2 ELSE 0
          [] b[i] = 224 ->
                IF i + 1 <= n /\ b[i + 1] \in 160..191 /\ Cont(i + 2) THEN 3 ELSE 0
          [] b[i] \in (225..236) \cup (238..239) ->
                IF Cont(i + 1) /\ Cont(i + 2) THEN 3 ELSE 0
          [] b[i] = 237 ->
                IF i + 1 <= n /\ b[i + 1] \in 128..159 /\ Cont(i + 2) THEN 3 ELSE 0
          [] b[i] = 240 ->
                IF i + 1 <= n /\ b[i + 1] \in 144..191 /\ Cont(i + 2) /\ Cont(i + 3)
                THEN 4 ELSE 0
          [] b[i] \in 241..243 ->
                IF Cont(i + 1) /\ Cont(i + 2) /\ Cont(i + 3) THEN 4 ELSE 0
          [] b[i] = 244 ->
                IF i + 1 <= n /\ b[i + 1] \in 128..143 /\ Cont(i + 2) /\ Cont(i + 3)
                THEN 4 ELSE 0
          [] OTHER -> 0

RECURSIVE Utf8From(_, _)
Utf8From(b, i) ==
    \/ i > Len(b)
    \/ Utf8Width(b, i) > 0 /\ Utf8From(b, i + Utf8Width(b, i))

\* zero bytes after the written bytes are NUL characters
from_utf8(d) == IF Utf8From(d.bytes, 1) THEN Ok(d) ELSE Err(Tx8Error("ParseError"))

\* parse_rom of the older crate, which compares with data_end - 1
parse_rom_short(data) ==
    IF SliceLen(data) < 64 \/ Expand(Slice(data, 0, 4)) # <<84, 88, 56, 0>>
    THEN Err(Tx8Error("ParseError"))
    ELSE
    LET program_name_length == At(data, 4)
        description_length == from_le_bytes(Expand(Slice(data, 5, 7)))
        data_length == from_le_bytes(Expand(Slice(data, 7, 11)))
        program_name_end == 64 + program_name_length
        description_end == program_name_end + description_length
        data_end == description_end + data_length
    IN  IF SliceLen(data) # data_end - 1 THEN Err(Tx8Error("ParseError"))
        ELSE IF ~IsOk(from_utf8(Slice(data, 64, program_name_end)))
        THEN Err(Tx8Error("ParseError"))
        ELSE IF ~IsOk(from_utf8(Slice(data, program_name_end, description_end)))
        THEN Err(Tx8Error("ParseError"))
        ELSE Ok(Slice(data, description_end, data_end - 1))

parse_rom(data) ==
    IF SliceLen(data) < 64 \/ Expand(Slice(data, 0, 4)) # <<84, 88, 56, 0>>
    THEN Err(Tx8Error("ParseError"))
    ELSE
    LET program_name_length == At(data, 4)
        description_length == from_le_bytes(Expand(Slice(data, 5, 7)))
        data_length == from_le_bytes(Expand(Slice(data, 7, 11)))
        program_name_end == 64 + program_name_length
        description_end == program_name_end + description_length
        data_end == description_end + data_length
    IN  IF SliceLen(data) # data_end THEN Err(Tx8Error("ParseError"))
        ELSE IF ~IsOk(from_utf8(Slice(data, 64, program_name_end)))
        THEN Err(Tx8Error("ParseError"))
        ELSE IF ~IsOk(from_utf8(Slice(data, program_name_end, description_end)))
        THEN Err(Tx8Error("ParseError"))
        ELSE Ok(Slice(data, description_end, data_end))

\* files: a header, a name, a description and a payload of size bytes that starts
\* with code, under a header that declares size + off payload bytes
RomMagics == { <<84, 88, 56, 0>>, <<84, 88, 56, 1>> }
\* empty, "A", U+00E9, U+20AC; and a lone 0xFF, a cut sequence, an overlong NUL
RomTexts == { <<>>, <<65>>, <<195, 169>>, <<226, 130, 172>>, <<255>>, <<195>>, <<192, 128>> }
RomDescriptions == { <<>>, <<195, 169>>, <<65, 128>> }
RomCode == { <<0>>, <<1, 1, 0>> }
\* payload sizes beyond the code: 8 MiB, 8 MiB + 1, 12 MiB, 12 MiB + 1
RomSizes == {8388608, 8388609, 12582912, 12582913}
RomHeader(magic, name, desc, declared) ==
    magic \o <<Len(name), Len(desc) % 256, Len(desc) \div 256>> \o Word(declared)
        \o Repeat(170, 53)
RomFile(magic, name, desc, code, size, off) ==
    Bytes(RomHeader(magic, name, desc, size + off) \o name \o desc \o code, size - Len(code))
RomFiles ==
    {RomFile(magic, name, desc, code, size, off) :
        magic \in RomMagics, name \in RomTexts, desc \in RomDescriptions, code \in RomCode,
        size \in RomSizes \cup {3}, off \in {-1, 0, 1}}
    \cup {Bytes(<<>>, 0), Bytes(<<84, 88, 56, 0>>, 59), Bytes(<<84, 88, 56, 0>>, 60),
          Bytes(<<84, 88, 56, 0>>, 61)}

\* `parse_rom(&data)?`
ParseRom ==
    /\ status = "Start"
    /\ status' = IF IsOk(parse_rom(rom)) THEN "Parsed" ELSE parse_rom(rom).err.kind
    /\ rom' = IF IsOk(parse_rom(rom)) THEN parse_rom(rom).v ELSE rom
    /\ hist' = Append(hist, [op |-> "parse_rom", data |-> rom, res |-> parse_rom(rom)])
    /\ UNCHANGED <<cpu, memory, rand_val, input>>

\* `Execution::new_with_rom(data)`: load_rom panics on a payload that does not fit
\* above MB_4; the zero bytes of the payload are the zero bytes of the array
NewWithRom ==
    /\ status = "Parsed"
    /\ IF load_rom_fits(SliceLen(rom))
       THEN /\ cpu' = Cpu_new
            /\ memory' = load_rom(rom.bytes)
            /\ rand_val' = Rand_new
            /\ \E stdin \in {<<>>, <<65>>} : input' = stdin
            /\ status' = "Running"
       ELSE /\ status' = "Panicked"
            /\ UNCHANGED <<cpu, memory, rand_val, input>>
    /\ UNCHANGED <<hist, rom>>

\* before new_with_rom there is no Execution: its fields hold what new() gives
InitRom ==
    /\ rom \in RomFiles
    /\ cpu = Cpu_new
    /\ memory = load_rom(<<>>)
    /\ rand_val = Rand_new
    /\ input = <<>>
    /\ status = "Start"
    /\ hist = <<>>
NextRom == ParseRom \/ NewWithRom \/ NextStep
SpecRom == InitRom /\ [][NextRom]_vars

(***************************************************************************)
(* The accessors of Memory called on their own: hist holds one record per  *)
(* call, with the array before and after it, the bytes a read returned and *)
(* the Result of a write.                                                  *)
(***************************************************************************)
\* calls in one run
MaxOps == 2

\* pointers below, at and above the end of the 24-bit space
MemPtrs == { <<0, 1, 0, 0>>, <<0, 1, 0, 1>>, <<252, 255, 255, 0>>, <<253, 255, 255, 0>>,
             <<254, 255, 255, 0>>, <<255, 255, 255, 0>>, <<255, 255, 255, 255>> }
MemVals == { <<120, 86, 52, 18>>, OnesSeq(4) }
MemRom == <<1, 2, 3>>
MemImages ==
    { load_rom(MemRom),
      write_int(write_int(write_int(load_rom(MemRom), <<0, 0, 0, 0>>, <<9, 8, 7, 6>>).array,
                          <<0, 1, 0, 0>>, <<17, 34, 51, 68>>).array,
                <<252, 255, 255, 0>>, <<85, 102, 119, 136>>).array }

\* the call of accessor op: [array, err, res]
MemApply(op, array, ptr, val) ==
    CASE op = "read_byte" -> [array |-> array, err |-> NoError, res |-> read_byte(array, ptr)]
      [] op = "read_short" -> [array |-> array, err |-> NoError, res |-> read_short(array, ptr)]
      [] op = "read_24bit" -> [array |-> array, err |-> NoError, res |-> read_24bit(array, ptr)]
      [] op = "read_int" -> [array |-> array, err |-> NoError, res |-> read_int(array, ptr)]
      [] op = "write_byte" ->
            [array |-> write_byte(array, ptr, Trunc(val, 1)).array,
             err |-> write_byte(array, ptr, Trunc(val, 1)).err, res |-> <<>>]
      [] op = "write_short" ->
            [array |-> write_short(array, ptr, Trunc(val, 2)).array,
             err |-> write_short(array, ptr, Trunc(val, 2)).err, res |-> <<>>]
      [] op = "write_int" ->
            [array |-> write_int(array, ptr, val).array,
             err |-> write_int(array, ptr, val).err, res |-> <<>>]

Called(op, ptr, val, out) ==
    /\ memory' = out.array
    /\ hist' = Append(hist, [op |-> op, ptr |-> ptr, val |-> val, pre |-> memory,
                             post |-> out.array, res |-> out.res, err |-> out.err])
    /\ UNCHANGED <<cpu, rand_val, input, status, rom>>

CanCall == status = "Memory" /\ Len(hist) < MaxOps

ReadByte ==
    /\ CanCall
    /\ \E ptr \in MemPtrs :
            Called("read_byte", ptr, Word(0), MemApply("read_byte", memory, ptr, Word(0)))

ReadShort ==
    /\ CanCall
    /\ \E ptr \in MemPtrs :
            Called("read_short", ptr, Word(0), MemApply("read_short", memory, ptr, Word(0)))

Read24bit ==
    /\ CanCall
    /\ \E ptr \in MemPtrs :
            Called("read_24bit", ptr, Word(0), MemApply("read_24bit", memory, ptr, Word(0)))

ReadInt ==
    /\ CanCall
    /\ \E ptr \in MemPtrs :
            Called("read_int", ptr, Word(0), MemApply("read_int", memory, ptr, Word(0)))

WriteByte ==
    /\ CanCall
    /\ \E ptr \in MemPtrs, val \in MemVals :
            Called("write_byte", ptr, val, MemApply("write_byte", memory, ptr, val))

WriteShort ==
    /\ CanCall
    /\ \E ptr \in MemPtrs, val \in MemVals :
            Called("write_short", ptr, val, MemApply("write_short", memory, ptr, val))

WriteInt ==
    /\ CanCall
    /\ \E ptr \in MemPtrs, val \in MemVals :
            Called("write_int", ptr, val, MemApply("write_int", memory, ptr, val))

InitMem ==
    /\ cpu = Cpu_new
    /\ memory \in MemImages
    /\ rand_val = Rand_new
    /\ input = <<>>
    /\ status = "Memory"
    /\ hist = <<>>
    /\ rom = Bytes(MemRom, 0)
NextMem ==
    \/ ReadByte \/ ReadShort \/ Read24bit \/ ReadInt
    \/ WriteByte \/ WriteShort \/ WriteInt
SpecMem == InitMem /\ [][NextMem]_vars

(***************************************************************************)
(* The two resolvers of parameter.rs on one parameter, CPU, memory and      *)
(* declared width: the first entry of hist is the input, the others the     *)
(* results.                                                                 *)
(***************************************************************************)
ResolvePars ==
    { Parameter("Unused", <<>>),
      Parameter("Constant8", <<200>>), Parameter("Constant8", <<5>>),
      Parameter("Constant16", <<0, 128>>), Parameter("Constant16", <<52, 18>>),
      Parameter("Constant32", <<120, 86, 52, 128>>),
      Parameter("AbsoluteAddress", <<0, 1, 0, 0>>), Parameter("AbsoluteAddress", <<4, 1, 0, 0>>),
      Parameter("AbsoluteAddress", <<254, 255, 255, 0>>),
      Parameter("RelativeAddress", <<0, 1, 0, 0>>),
      Parameter("Register", <<1>>), Parameter("Register", <<17>>), Parameter("Register", <<33>>),
      Parameter("Register", <<49>>), Parameter("Register", <<8>>),
      Parameter("RegisterAddress", <<2>>), Parameter("RegisterAddress", <<18>>),
      Parameter("RegisterAddress", <<34>>), Parameter("RegisterAddress", <<9>>) }
ResolveCpus ==
    { [Cpu_new EXCEPT !.b = <<128, 129, 130, 131>>, !.c = <<4, 1, 0, 0>>],
      [Cpu_new EXCEPT !.b = <<127, 255, 0, 1>>, !.c = <<0, 1, 1, 7>>, !.o = <<4, 0, 0, 0>>] }
ResolveImages ==
    { load_rom(<<>>),
      write_int(write_int(write_int(load_rom(<<>>), <<0, 1, 0, 0>>, <<200, 255, 127, 128>>).array,
                          <<4, 1, 0, 0>>, <<1, 2, 3, 200>>).array,
                <<252, 255, 255, 0>>, <<85, 102, 255, 255>>).array }
ResolveSizes == {"Byte", "Short", "Int"}

Resolved(op, res) ==
    /\ hist' = Append(hist, [op |-> op, res |-> res])
    /\ UNCHANGED <<cpu, memory, rand_val, input, status, rom>>

CanResolve(op) == status = "Resolve" /\ \A i \in DOMAIN hist : hist[i].op # op

FromPar ==
    /\ CanResolve("from_par")
    /\ Resolved("from_par", Value_from_par(hist[1].par, cpu, memory, hist[1].mem_size))

FromParSigned ==
    /\ CanResolve("from_par_signed")
    /\ Resolved("from_par_signed",
                Value_from_par_signed(hist[1].par, cpu, memory, hist[1].mem_size))

InitResolve ==
    /\ cpu \in ResolveCpus
    /\ memory \in ResolveImages
    /\ rand_val = Rand_new
    /\ input = <<>>
    /\ status = "Resolve"
    /\ \E par \in ResolvePars, mem_size \in ResolveSizes :
            hist = <<[op |-> "input", par |-> par, mem_size |-> mem_size]>>
    /\ rom = Bytes(<<>>, 0)
NextResolve == FromPar \/ FromParSigned
SpecResolve == InitResolve /\ [][NextResolve]_vars

\* payloads without Jump, Call or Return: k Nop bytes, register arithmetic, an
\* instruction cut off by the end of the payload, an unknown opcode
RECURSIVE Nops(_)
Nops(k) == IF k = 0 THEN <<>> ELSE <<OpByte("Nop")>> \o Nops(k - 1)
StraightOps == {"Add", "Sub", "Div", "CompareSigned", "Xor"}
StraightPrograms ==
    {Nops(k) : k \in 0..(MaxSteps - 1)}
    \cup {Nops(k) \o tail : k \in 0..2,
                            tail \in {<<OpByte("Load")>>, <<15>>, <<OpByte("Add"), 102, 1>>,
                                      Encode("Pop", PReg(1), PUnused),
                                      Encode("Load", PReg(0), PRegAddr(7))}}
    \cup {Encode("LoadWord", PReg(1), PConst32(v)) \o Encode(op, PReg(1), PConst8(w)) :
             op \in StraightOps, v \in Values, w \in Values}

InitStraight == \E data \in StraightPrograms : Constructed(data, <<>>)
SpecStraight == InitStraight /\ [][Next]_vars

(***************************************************************************)
(* Two machines that differ only in the top byte of p, or of s, side by     *)
(* side: the decoder on both, and one step on both.                         *)
(***************************************************************************)
ModTarget == <<16, 0, 64, 0>>
ModCode ==
    { <<OpByte("Nop")>>, <<OpByte("Return")>>, <<15>>,
      Encode("Push", PConst32(<<120, 86, 52, 18>>), PUnused),
      Encode("Push", PReg(6), PUnused), Encode("Push", PReg(22), PUnused),
      Encode("Push", PReg(7), PUnused), Encode("Push", PReg(23), PUnused),
      Encode("Push", PRegAddr(7), PUnused), Encode("Push", PRegAddr(6), PUnused),
      Encode("Pop", PReg(1), PUnused), Encode("Pop", PReg(17), PUnused),
      Encode("Pop", PReg(7), PUnused), Encode("Pop", PRegAddr(7), PUnused),
      Encode("Pop", PAbs(ScratchAddr), PUnused),
      Encode("Call", PConst32(ModTarget), PUnused), Encode("Call", PReg(7), PUnused),
      Encode("Call", PReg(6), PUnused),
      Encode("Load", PReg(0), PReg(6)), Encode("Load", PReg(6), PReg(1)),
      Encode("Add", PReg(1), PReg(2)), Encode("Jump", PRegAddr(6), PUnused),
      Encode("LoadWord", PRel(ScratchAddr), PConst32(<<1, 2, 3, 4>>)) }
\* the code at 0x400000 and at 0xFFFFFE, and data where the stack pointers point
ModImage(code) ==
    write_int(write_int(write_int(write_bytes(load_rom(code), 16777214, code).array,
                                  <<0, 32, 192, 0>>, <<17, 34, 51, 68>>).array,
                        <<2, 0, 0, 0>>, <<85, 102, 119, 136>>).array,
              <<0, 0, 0, 0>>, <<14, 13, 12, 11>>).array
ModCpus ==
    { [Cpu_new EXCEPT !.b = <<128, 129, 130, 131>>, !.c = <<1, 0, 0, 0>>],
      [Cpu_new EXCEPT !.s = <<2, 0, 0, 0>>, !.b = <<1, 1, 1, 1>>],
      [Cpu_new EXCEPT !.p = <<254, 255, 255, 0>>, !.s = <<6, 0, 0, 0>>] }
ModHighs == {1, 255}

CanCompare(op) == status = "Modulo" /\ \A i \in DOMAIN hist : hist[i].op # op
Compared(op, hi, one, two) ==
    /\ hist' = Append(hist, [op |-> op, hi |-> hi, one |-> one, two |-> two])
    /\ UNCHANGED <<cpu, memory, rand_val, input, status, rom>>

\* parse_instruction on the machine and on the one whose p has the top byte hi
DecodeBoth ==
    /\ CanCompare("parse_instruction")
    /\ \E hi \in ModHighs :
          Compared("parse_instruction", hi,
                   parse_instruction(cpu, memory, cpu.p),
                   parse_instruction([cpu EXCEPT !.p[4] = hi], memory, [cpu.p EXCEPT ![4] = hi]))

\* next_step on the machine and on the one whose s has the top byte hi
StepBoth ==
    /\ CanCompare("next_step")
    /\ \E hi \in ModHighs :
          Compared("next_step", hi,
                   next_step(Machine, <<Word(0), Word(0)>>),
                   next_step([Machine EXCEPT !.cpu.s[4] = hi], <<Word(0), Word(0)>>))

InitModulo ==
    /\ cpu \in ModCpus
    /\ \E code \in ModCode : memory = ModImage(code) /\ rom = Bytes(code, 0)
    /\ rand_val = Rand_new
    /\ input = <<>>
    /\ status = "Modulo"
    /\ hist = <<>>
NextModulo == DecodeBoth \/ StepBoth
SpecModulo == InitModulo /\ [][NextModulo]_vars

(***************************************************************************)
(* Properties of the steps taken, read from hist.                          *)
(***************************************************************************)
IsReg(to, bytes) == to.kind = "Register" /\ to.x[1] \in bytes

\* a register byte with a high nibble of 0, 1 or 2 and a low nibble of 0..7
WellFormed(to) ==
    to.kind \in {"Register", "RegisterAddress"} =>
        to.x[1] \div 16 \in 0..2 /\ to.x[1] % 16 \in 0..7

\* the w bytes the destination `to` names in state st; addresses are those of state at
PlaceBytes(st, at, to, w) ==
    CASE to.kind = "Register" -> Trunc(st.cpu[RegOf(to.x[1] % 16)], w)
      [] to.kind = "AbsoluteAddress" -> Trunc(read_int(st.mem, to.x), w)
      [] to.kind = "RelativeAddress" ->
            Trunc(read_int(st.mem, wrapping_add(to.x, at.cpu.o)), w)
      [] to.kind = "RegisterAddress" ->
            Trunc(read_int(st.mem, BitAnd(at.cpu[RegOf(to.x[1] % 16)],
                                          SizeFilter(get_reg_size(to.x[1])))), w)

\* C1: whenever next_step returns an error, all eight registers, p included, and
\* every memory byte are equal to their values before the step.
C1_ErrorStepsAtomic ==
    \A i \in DOMAIN hist :
        hist[i].out \in ErrorKinds =>
            /\ hist[i].post.cpu = hist[i].pre.cpu
            /\ hist[i].post.mem = hist[i].pre.mem
            /\ i = Len(hist) => (cpu = hist[i].pre.cpu /\ memory = hist[i].pre.mem)

\* a write through a register byte with an invalid high nibble was refused after
\* earlier steps had changed register a
C1_Witness ==
    \E i \in DOMAIN hist :
        /\ hist[i].decoded
        /\ hist[i].out = "InvalidRegister"
        /\ hist[i].instr.tag = "Not"
        /\ hist[i].pre.cpu.a = OnesSeq(4)

\* C2: one call of next_step yields an Effect (None or Halted) or one of the
\* Tx8Error kinds; no operand values make the step abort the process.
C2_StepTotal ==
    \A i \in DOMAIN hist : hist[i].out \in {"None", "Halted"} \cup ErrorKinds

\* C3: signed and unsigned Div and Mod whose divisor operand is 0 return
\* DivisionByZero, whatever the destination and the operand width; float Div and
\* Mod whose divisor has the bits 0 never return DivisionByZero and return no
\* error at all on a well-formed destination.
C3_DivisionByZero ==
    \A i \in DOMAIN hist :
        LET h == hist[i]
        IN  (h.decoded /\ h.instr.tag = "DivMod" /\ IsZero(h.instr.val2.val)) =>
                IF h.instr.kind = "Float"
                THEN /\ h.out # "DivisionByZero"
                     /\ WellFormed(h.instr.to) => h.out = "None"
                ELSE h.out = "DivisionByZero"

\* an unsigned division of a memory operand by a 16-bit register holding 0 failed
C3_Witness ==
    \E i \in DOMAIN hist :
        /\ hist[i].decoded
        /\ hist[i].instr.tag = "DivMod"
        /\ hist[i].instr.kind = "Unsigned"
        /\ hist[i].instr.to.kind = "AbsoluteAddress"
        /\ IsZero(hist[i].instr.val2.val)
        /\ status = "DivisionByZero"

\* quotient q and remainder rem of n by d: q * d + rem = n over the integers, the
\* quotient truncated toward zero
Pairing(kind, n, d, q, rem) ==
    LET ext(v) == IF kind = "Signed" THEN SignExt(v, 8) ELSE ZeroExt(v, 8)
    IN  /\ wrapping_add(wrapping_mul(ext(q), ext(d)), ext(rem)) = ext(n)
        /\ IF kind = "Signed"
           THEN /\ LessSeq(Magnitude(rem), Magnitude(d))
                /\ IsZero(rem) \/ IsNeg(rem) = IsNeg(n)
           ELSE LessSeq(rem, d)

\* C4: an integer Div with divisor # 0 and a 32-bit register destination other
\* than r leaves quotient in dst and remainder in r with dst * divisor + r =
\* dividend, the quotient truncated toward zero; Mod leaves them swapped.
C4_DivModPairing ==
    \A i \in DOMAIN hist :
        LET h == hist[i]
        IN  (/\ h.decoded
             /\ h.instr.tag = "DivMod"
             /\ h.instr.kind \in {"Signed", "Unsigned"}
             /\ ~IsZero(h.instr.val2.val)
             /\ IsReg(h.instr.to, (0..7) \ {4})) =>
                /\ h.out = "None"
                /\ LET dst == h.post.cpu[RegOf(h.instr.to.x[1])]
                       q == IF h.instr.flag THEN dst ELSE h.post.cpu.r
                       rem == IF h.instr.flag THEN h.post.cpu.r ELSE dst
                   IN  Pairing(h.instr.kind, h.instr.val.val, h.instr.val2.val, q, rem)

\* C5: after CompareSigned(lhs, rhs), r is 0, 1 or 0xFFFFFFFF and is the sign of
\* lhs - rhs over the integers, both read as signed integers of the operand width.
C5_SignedCompare ==
    \A i \in DOMAIN hist :
        LET h == hist[i]
            w == Size_bytes(h.instr.val.size)
            lhs == ToSigned(Trunc(h.instr.val.val, w))
            rhs == ToSigned(Trunc(h.instr.val2.val, w))
        IN  (h.decoded /\ h.instr.tag = "CompareSigned") =>
                /\ h.out = "None"
                /\ h.post.cpu.r = (IF lhs = rhs THEN Word(0)
                                   ELSE IF lhs > rhs THEN Word(1) ELSE OnesSeq(4))

\* C6: after CompareUnsigned(lhs, rhs), r is 0 when lhs = rhs, 1 when lhs > rhs
\* and 0xFFFFFFFF when lhs < rhs as unsigned 32-bit integers; no register other
\* than r and p and no memory byte changes.
C6_UnsignedCompare ==
    \A i \in DOMAIN hist :
        LET h == hist[i]
            lhs == h.instr.val.val
            rhs == h.instr.val2.val
        IN  (h.decoded /\ h.instr.tag = "CompareUnsigned") =>
                /\ h.out = "None"
                /\ h.post.cpu.r = (IF lhs = rhs THEN Word(0)
                                   ELSE IF LessSeq(rhs, lhs) THEN Word(1) ELSE OnesSeq(4))
                /\ \A n \in RegNames \ {"r", "p"} : h.post.cpu[n] = h.pre.cpu[n]
                /\ h.post.mem = h.pre.mem

\* a = 1 was compared with b = 0xFFFFFFFF and r became 0xFFFFFFFF
C6_Witness ==
    \E i \in DOMAIN hist :
        /\ hist[i].decoded
        /\ hist[i].instr.tag = "CompareUnsigned"
        /\ hist[i].pre.cpu.a = Word(1)
        /\ hist[i].pre.cpu.b = OnesSeq(4)
        /\ hist[i].instr.val.val = Word(1)
        /\ hist[i].instr.val2.val = OnesSeq(4)
        /\ cpu.r = OnesSeq(4)

\* C7: integer Add and Sub with a destination of natural width w other than
\* register r work on the low w bytes of both operands; dst receives the result
\* modulo 2^(8w) and r = (u ? 1 : 0) | (s ? 2 : 0), u the unsigned overflow or
\* borrow and s the signed overflow of the w-byte operation.
C7_AddSubFlags ==
    \A i \in DOMAIN hist :
        LET h == hist[i]
            to == h.instr.to
            w == Size_bytes(Writable_size(to))
            x1 == Trunc(h.instr.val.val, w)
            x2 == Trunc(h.instr.val2.val, w)
            u == IF h.instr.tag = "Add" THEN overflowing_add_unsigned(x1, x2)
                 ELSE overflowing_sub_unsigned(x1, x2)
            sg == IF h.instr.tag = "Add" THEN overflowing_add_signed(x1, x2)
                  ELSE overflowing_sub_signed(x1, x2)
        IN  (/\ h.decoded
             /\ h.instr.tag \in {"Add", "Sub"}
             /\ h.instr.kind \in {"Signed", "Unsigned"}
             /\ WellFormed(to)
             /\ ~IsReg(to, {4, 20, 36})) =>
                /\ h.out = "None"
                /\ PlaceBytes(h.post, h.pre, to, w) = u[1]
                /\ h.post.cpu.r = OverflowFlags(u[2], sg[2])

\* C8: Push(v) immediately followed by Pop(dst), v and dst of one width w,
\* restores s to its value before the Push and leaves dst equal to v truncated
\* to w bytes (dst a register alias or a memory operand; s and p, which the
\* two steps themselves move, are left out).
C8_StackRoundTrip ==
    \A i \in DOMAIN hist :
        (/\ i + 1 \in DOMAIN hist
         /\ hist[i].decoded /\ hist[i].instr.tag = "Push" /\ hist[i].out = "None"
         /\ hist[i + 1].decoded /\ hist[i + 1].instr.tag = "Pop"
         /\ WellFormed(hist[i + 1].instr.to)
         /\ ~IsReg(hist[i + 1].instr.to, {6, 7, 22, 23, 38, 39})
         /\ Writable_size(hist[i + 1].instr.to) = hist[i].instr.val.size) =>
            LET w == Size_bytes(hist[i].instr.val.size)
                pp == hist[i + 1]
            IN  /\ pp.out = "None"
                /\ pp.post.cpu.s = hist[i].pre.cpu.s
                /\ PlaceBytes(pp.post, pp.pre, pp.instr.to, w) = Trunc(hist[i].instr.val.val, w)

\* the value And, Xor and Not hand to the write of their destination
WrittenValue(instr) ==
    CASE instr.tag = "And" -> BitAnd(instr.val.val, instr.val2.val)
      [] instr.tag = "Xor" -> BitXor(instr.val.val, instr.val2.val)
      [] instr.tag = "Not" -> NotSeq(instr.val.val)

\* C9: a write of v at natural width through the 8-bit alias of a register
\* leaves its bits 8..31 and sets its bits 0..7 to v & 0xFF; through the 16-bit
\* alias it leaves bits 16..31 and sets bits 0..15 to v & 0xFFFF; no other
\* register and no memory byte changes (the step then advances p by len).
C9_RegisterAliasing ==
    \A i \in DOMAIN hist :
        LET h == hist[i]
            b == h.instr.to.x[1]
            reg == RegOf(b % 16)
            old == h.pre.cpu[reg]
            v == WrittenValue(h.instr)
            new == IF b \in 16..23 THEN <<v[1], old[2], old[3], old[4]>>
                   ELSE <<v[1], v[2], old[3], old[4]>>
            written == [h.pre.cpu EXCEPT ![reg] = new]
        IN  (/\ h.decoded
             /\ h.instr.tag \in {"And", "Xor", "Not"}
             /\ IsReg(h.instr.to, (16..23) \cup (32..39))) =>
                /\ h.out = "None"
                /\ h.post.cpu = [written EXCEPT !.p = wrapping_add(@, Word(h.len))]
                /\ h.post.mem = h.pre.mem

\* Not through the 8-bit alias of a = 0x12345678 left a = 0x12345687
C9_Witness ==
    \E i \in DOMAIN hist :
        /\ hist[i].decoded
        /\ hist[i].instr.tag = "Not"
        /\ hist[i].instr.to = Parameter("Register", <<16>>)
        /\ hist[i].pre.cpu.a = <<120, 86, 52, 18>>
        /\ hist[i].post.cpu.a = <<135, 86, 52, 18>>

\* C10: after a Jump with comparison c, p is the operand when c holds of r read
\* as a signed 32-bit integer compared with 0 (None always holds) and p + len
\* otherwise; no other register and no memory byte changes.
C10_JumpSemantics ==
    \A i \in DOMAIN hist :
        LET h == hist[i]
            r == ToSigned(h.pre.cpu.r)
            c == h.instr.comp
            holds == \/ c = "None"
                     \/ c = "Equal" /\ r = 0
                     \/ c = "NotEqual" /\ r # 0
                     \/ c = "Greater" /\ r > 0
                     \/ c = "GreaterEqual" /\ r >= 0
                     \/ c = "Less" /\ r < 0
                     \/ c = "LessEqual" /\ r <= 0
            target == IF holds THEN h.instr.val.val
                      ELSE wrapping_add(h.pre.cpu.p, Word(h.len))
        IN  (h.decoded /\ h.instr.tag = "Jump") =>
                /\ h.out = "None"
                /\ h.post.cpu = [h.pre.cpu EXCEPT !.p = target]
                /\ h.post.mem = h.pre.mem

\* JumpNotEqual with r = 1 went to the target 0x12345678 held in register a
C10_Witness ==
    \E i \in DOMAIN hist :
        /\ hist[i].decoded
        /\ hist[i].instr.tag = "Jump"
        /\ hist[i].instr.comp = "NotEqual"
        /\ hist[i].pre.cpu.r = Word(1)
        /\ hist[i].pre.cpu.a = <<120, 86, 52, 18>>
        /\ cpu.p = <<120, 86, 52, 18>>

\* the opcode byte and the parameter-mode byte at p before step h
RawOp(h) == read_byte(h.pre.mem, h.pre.cpu.p)[1]
RawMode(h) == read_byte(h.pre.mem, wrapping_add(h.pre.cpu.p, Word(1)))[1]

\* bytes an operand of mode nibble m occupies
Footprint(m) ==
    CASE m = 0 -> 0 [] m = 1 -> 1 [] m = 2 -> 2 [] m = 3 -> 4
      [] m = 4 -> 3 [] m = 5 -> 3 [] m = 6 -> 1 [] m = 7 -> 1

\* C11: the len of every decoded instruction is 1 for Halt, Nop and Return and
\* 2 + footprint(first mode) + footprint(second mode) for every other opcode,
\* the second operand counted whether or not the opcode uses it.
C11_DecodeLength ==
    \A i \in DOMAIN hist :
        LET h == hist[i]
        IN  h.decoded =>
                h.len = IF RawOp(h) \in {0, 1, 13} THEN 1
                        ELSE 2 + Footprint(RawMode(h) \div 16) + Footprint(RawMode(h) % 16)

\* a Jump, which has one operand, was decoded with a register and a 32-bit
\* constant and took 7 bytes
C11_Witness ==
    \E i \in DOMAIN hist :
        /\ hist[i].decoded
        /\ hist[i].instr.tag = "Jump"
        /\ RawMode(hist[i]) = 99
        /\ hist[i].len = 7

\* the addresses the accessors touch for a pointer and a width
Addressed(ptr, w) == {truncate_ptr(ptr) + k : k \in 0..(w - 1)}

\* C12: write_int(p, v) at a pointer whose truncated form is at most 2^24 - 4
\* succeeds, read_int(p) then returns v, and no byte outside the four addressed
\* bytes is changed.
C12_MemoryRoundTrip ==
    \A i \in DOMAIN hist :
        LET h == hist[i]
        IN  (h.op = "write_int" /\ Low24(h.ptr) <= 16777216 - 4) =>
                /\ h.err = NoError
                /\ read_int(h.post, h.ptr) = h.val
                /\ \A a \in (DOMAIN h.pre \cup DOMAIN h.post) \ Addressed(h.ptr, 4) :
                        read(h.post, a) = read(h.pre, a)
                /\ (i + 1 \in DOMAIN hist /\ hist[i + 1].op = "read_int"
                        /\ hist[i + 1].ptr = h.ptr) => hist[i + 1].res = h.val

\* 0x12345678 was written at 0x01000100 over other bytes and read back from there
C12_Witness ==
    \E i \in DOMAIN hist :
        /\ i + 1 \in DOMAIN hist
        /\ hist[i].op = "write_int" /\ hist[i].ptr = <<0, 1, 0, 1>>
        /\ hist[i].val = <<120, 86, 52, 18>>
        /\ read_int(hist[i].pre, hist[i].ptr) = <<17, 34, 51, 68>>
        /\ hist[i + 1].op = "read_int" /\ hist[i + 1].ptr = <<0, 1, 0, 1>>
        /\ hist[i + 1].res = <<120, 86, 52, 18>>

\* C13: every accessor called with ptr returns what the same accessor returns
\* at ptr & 0xFFFFFF and leaves the array that call leaves.
C13_PointerTruncation ==
    \A i \in DOMAIN hist :
        LET h == hist[i]
            low == MemApply(h.op, h.pre, BitAnd(h.ptr, <<255, 255, 255, 0>>), h.val)
        IN  h.op \in {"read_byte", "read_short", "read_24bit", "read_int",
                      "write_byte", "write_short", "write_int"} =>
                /\ h.res = low.res
                /\ h.post = low.array
                /\ h.err = low.err

\* read_int at 0x01000100 returned the bytes stored at 0x000100
C13_Witness ==
    \E i \in DOMAIN hist :
        /\ hist[i].op = "read_int"
        /\ hist[i].ptr = <<0, 1, 0, 1>>
        /\ hist[i].res = <<17, 34, 51, 68>>

\* C14: write_byte, write_short and write_int return Ok for every pointer and
\* every value.
C14_WritesNeverFail ==
    \A i \in DOMAIN hist :
        hist[i].op \in {"write_byte", "write_short", "write_int"} => hist[i].err = NoError

\* the byte k places after the opcode byte of a step
RawByte(h, k) == read_byte(h.pre.mem, wrapping_add(h.pre.cpu.p, Word(k)))[1]
\* a register byte that names no register: high nibble above 2 or low nibble above 7
InvalidRegisterByte(b) == (b \div 16) \notin {0, 1, 2} \/ (b % 16) > 7

\* C15: a step whose opcode takes operands, whose first operand is a Register or
\* RegisterAddress with a byte that names no register, and whose second operand
\* is a valid register, ends with InvalidRegister whether the opcode reads or
\* writes its first operand.
C15_InvalidRegisterRejected ==
    \A i \in DOMAIN hist :
        LET h == hist[i]
        IN  (/\ IsOk(parse_op_code(RawOp(h)))
             /\ RawOp(h) \notin {0, 1, 13}
             /\ RawMode(h) \in {102, 118}
             /\ InvalidRegisterByte(RawByte(h, 2))
             /\ ~InvalidRegisterByte(RawByte(h, 3))) => h.out = "InvalidRegister"

\* the opcode bytes of the table: 00-0E, 10-1E, 20-2A, 30-3D, 40-57, 60-66, 70-75
ValidOpBytes ==
    (0..14) \cup (16..30) \cup (32..42) \cup (48..61) \cup (64..87) \cup (96..102)
        \cup (112..117)

\* C16: a step at a byte of the table never ends with InvalidOpCode; a step at
\* any other byte b decodes nothing and ends with InvalidOpCode(b), whatever the
\* parameter-mode byte is.
C16_OpcodeTable ==
    \A i \in DOMAIN hist :
        LET h == hist[i]
        IN  IF RawOp(h) \in ValidOpBytes
            THEN /\ h.err.kind # "InvalidOpCode"
                 /\ h.out # "InvalidOpCode"
            ELSE /\ ~h.decoded
                 /\ h.err = InvalidOpCode(RawOp(h))
                 /\ h.out = "InvalidOpCode"

\* byte 0x8F followed by the mode byte 0x90, whose first nibble is no mode, was
\* refused as an opcode
C16_Witness ==
    \E i \in DOMAIN hist :
        /\ RawOp(hist[i]) = 143
        /\ RawMode(hist[i]) = 144
        /\ hist[i].err = InvalidOpCode(143)

\* how the arms of with_params use the two operands of an opcode
NoOperandOps == {"Halt", "Nop", "Return"}
ReadFirstOps ==
    {"Jump", "JumpEqual", "JumpNotEqual", "JumpGreaterThan", "JumpGreaterEqual",
     "JumpLessThan", "JumpLessEqual", "Call", "SysCall", "Push", "LoadA", "LoadB", "LoadC",
     "LoadD", "RSeed"}
ReadBothOps == {"CompareSigned", "CompareFloat", "CompareUnsigned", "Test"}
WriteFromSecondOps == {"Load", "LoadSigned", "LoadWord", "LoadWordSigned"}
WriteOnlyOps == {"StoreA", "StoreB", "StoreC", "StoreD", "Zero", "Pop", "Rand"}
UnaryOps ==
    {"Inc", "Dec", "Abs", "Sign", "IncFloat", "DecFloat", "AbsFloat", "SignFloat", "Not",
     "Sin", "Cos", "Tan", "ArcSin", "ArcCos", "ArcTan", "Sqrt", "Exp", "Log", "Log2", "Log10",
     "ItoF", "FtoI", "UtoF", "FtoU"}
WritesFirst(op) == op \notin NoOperandOps \cup ReadFirstOps \cup ReadBothOps
ReadsFirst(op) == op \notin NoOperandOps \cup WriteFromSecondOps \cup WriteOnlyOps
ReadsSecond(op) ==
    op \notin NoOperandOps \cup ReadFirstOps \cup WriteOnlyOps \cup UnaryOps

\* the step decodes an opcode with operands whose mode byte has a nibble in
\* 8..15, Unused where the opcode reads, or Unused or a constant where it writes
Malformed(h) ==
    LET op == parse_op_code(RawOp(h))
        m1 == RawMode(h) \div 16
        m2 == RawMode(h) % 16
    IN  /\ IsOk(op)
        /\ op.v \notin NoOperandOps
        /\ \/ m1 >= 8
           \/ m2 >= 8
           \/ m1 = 0 /\ ReadsFirst(op.v)
           \/ m2 = 0 /\ ReadsSecond(op.v)
           \/ m1 \in 0..3 /\ WritesFirst(op.v)

\* the only malformation is an Unused second operand that is read, and the first
\* operand, read before it, is a register byte with a low nibble above 7
FirstRegisterFails(h) ==
    LET op == parse_op_code(RawOp(h))
    IN  /\ IsOk(op)
        /\ ReadsFirst(op.v) /\ ReadsSecond(op.v)
        /\ RawMode(h) \in {96, 112}
        /\ RawByte(h, 2) % 16 > 7

\* C17 as stated: every malformed operand encoding ends the step with
\* InstructionError.
C17_MalformedOperands ==
    \A i \in DOMAIN hist :
        Malformed(hist[i]) => hist[i].out = "InstructionError"

\* C17: every malformed operand encoding ends the step with InstructionError
\* and decodes nothing, except that an Unused second operand after a first
\* operand whose register byte has a low nibble above 7 ends it with
\* InvalidRegister.
C17_MalformedOperandsInOrder ==
    \A i \in DOMAIN hist :
        LET h == hist[i]
        IN  Malformed(h) =>
                /\ ~h.decoded
                /\ h.out = IF FirstRegisterFails(h) THEN "InvalidRegister"
                           ELSE "InstructionError"

\* CompareUnsigned with the register b and an Unused second operand was refused
C17_Witness ==
    \E i \in DOMAIN hist :
        /\ RawOp(hist[i]) = 11
        /\ RawMode(hist[i]) = 96
        /\ RawByte(hist[i], 2) = 1
        /\ hist[i].out = "InstructionError"

\* C18: a step taken at a program counter above 0xFFFFF0 decodes nothing and
\* ends with InstructionError.
C18_DecoderBound ==
    \A i \in DOMAIN hist :
        LET h == hist[i]
        IN  (h.pre.cpu.p[4] # 0 \/ Low24(h.pre.cpu.p) > 16777200) =>
                ~h.decoded /\ h.out = "InstructionError"

\* texts that are well-formed UTF-8 by the standard: empty, "A", U+00E9, U+20AC
WellFormedTexts == { <<>>, <<65>>, <<195, 169>>, <<226, 130, 172>> }
\* the fields of the header of a file of at least 11 bytes
HeaderN(d) == At(d, 4)
HeaderD(d) == At(d, 5) + 256 * At(d, 6)
HeaderL(d) == At(d, 7) + 256 * At(d, 8) + 65536 * At(d, 9) + 16777216 * At(d, 10)
\* at least 64 bytes, the magic, the exact length, UTF-8 name and description
WellFormedRom(d) ==
    /\ SliceLen(d) >= 64
    /\ SubSeq(d.bytes, 1, 4) = <<84, 88, 56, 0>>
    /\ SliceLen(d) = 64 + HeaderN(d) + HeaderD(d) + HeaderL(d)
    /\ SubSeq(d.bytes, 65, 64 + HeaderN(d)) \in WellFormedTexts
    /\ SubSeq(d.bytes, 65 + HeaderN(d), 64 + HeaderN(d) + HeaderD(d)) \in WellFormedTexts

\* C19: parse_rom returns a payload exactly for the well-formed files and
\* ParseError for every other file, and the payload is the L bytes from offset
\* 64 + N + D on.
C19_RomValidation ==
    \A i \in DOMAIN hist :
        LET h == hist[i]
        IN  "op" \in DOMAIN h /\ h.op = "parse_rom" =>
                IF WellFormedRom(h.data)
                THEN /\ IsOk(h.res)
                     /\ SliceLen(h.res.v) = HeaderL(h.data)
                     /\ \A k \in {j \in {0, 1, 2, HeaderL(h.data) - 1} :
                                    0 <= j /\ j < HeaderL(h.data)} :
                            At(h.res.v, k) = At(h.data, 64 + HeaderN(h.data) + HeaderD(h.data) + k)
                ELSE h.res = Err(Tx8Error("ParseError"))

\* a file named U+20AC with the description U+00E9 and the three bytes Nop, Nop,
\* Halt was parsed and its payload is those three bytes
C19_Witness ==
    /\ hist # <<>>
    /\ hist[1].op = "parse_rom"
    /\ HeaderN(hist[1].data) = 3
    /\ HeaderD(hist[1].data) = 2
    /\ IsOk(hist[1].res)
    /\ hist[1].res.v = Bytes(<<1, 1, 0>>, 0)

\* C20: a file whose header declares a payload of more than 8 MiB is refused by
\* parse_rom and nothing of it reaches the address space.
C20_PayloadLimit ==
    (/\ hist # <<>>
     /\ hist[1].op = "parse_rom"
     /\ SliceLen(hist[1].data) >= 64
     /\ HeaderL(hist[1].data) > 8388608) =>
        /\ ~IsOk(hist[1].res)
        /\ status \notin {"Parsed", "Running", "Halted"}
        /\ memory = load_rom(<<>>)

\* the Execution was constructed and has taken no step
Fresh == status = "Running" /\ \A i \in DOMAIN hist : "out" \notin DOMAIN hist[i]

\* C21: after construction from a payload, the byte at 0x400000 + i is
\* payload[i] for every i below the payload length, every other byte is 0,
\* a, b, c, d, r and o are 0, s is 0xC02000 and p is 0x400000.
C21_InitialState ==
    Fresh =>
        /\ \A i \in 0..(Len(rom.bytes) - 1) : read(memory, 4194304 + i) = At(rom, i)
        /\ \A a \in DOMAIN memory :
                /\ a \in 4194304..(4194304 + SliceLen(rom) - 1)
                /\ memory[a] = At(rom, a - 4194304)
        /\ \A a \in {0, 4194303, 4194304 + SliceLen(rom), 12591104, 16777215} :
                a \notin 4194304..(4194304 + SliceLen(rom) - 1) => read(memory, a) = 0
        /\ \A reg \in {"a", "b", "c", "d", "r", "o"} : cpu[reg] = <<0, 0, 0, 0>>
        /\ cpu.s = <<0, 32, 192, 0>>
        /\ cpu.p = <<0, 0, 64, 0>>

\* the payload Nop, Nop, Halt of a parsed file was loaded
C21_Witness ==
    /\ Fresh
    /\ hist # <<>>
    /\ rom.bytes = <<1, 1, 0>>
    /\ read(memory, 4194304) = 1
    /\ read(memory, 4194306) = 0

\* C22: the steps are taken in program order, each from the state the one
\* before it left; only the last step returns Halted or an error, and that
\* outcome is what the driver ends with; a Halt step changes no register and
\* no memory byte.
C22_DriverLoop ==
    /\ \A i \in DOMAIN hist :
            /\ i < Len(hist) =>
                    /\ hist[i].out = "None"
                    /\ hist[i + 1].pre = hist[i].post
            /\ (hist[i].decoded /\ hist[i].instr.tag = "Halt") =>
                    /\ hist[i].out = "Halted"
                    /\ hist[i].post = hist[i].pre
    /\ hist # <<>> =>
            /\ hist[Len(hist)].post = [cpu |-> cpu, mem |-> memory]
            /\ status = IF hist[Len(hist)].out = "None" THEN "Running"
                        ELSE hist[Len(hist)].out
    /\ hist = <<>> => status = "Running"

\* a run ended with DivisionByZero at its third step
C22_Witness ==
    /\ Len(hist) = 3
    /\ hist[2].out = "None"
    /\ hist[3].out = "DivisionByZero"
    /\ status = "DivisionByZero"

\* C23: a SysCall step succeeds only on one of the twelve numbers that
\* h := 31 * h + c gives for the recognised names; on every other number it
\* returns InvalidSysCall, and on those twelve it never does.
C23_SyscallLookup ==
    \A i \in DOMAIN hist :
        LET h == hist[i]
        IN  (h.decoded /\ h.instr.tag = "SysCall") =>
                IF \E k \in DOMAIN NameNumbers : NameNumbers[k] = h.instr.val.val
                THEN h.out \in {"None", "NoInputGiven"}
                ELSE h.out = "InvalidSysCall"

\* the number of print_char was accepted and the number 0 was refused after it
C23_Witness ==
    /\ Len(hist) >= 2
    /\ hist[1].instr.tag = "SysCall"
    /\ hist[1].instr.val.val = <<168, 61, 63, 8>>
    /\ hist[1].out = "None"
    /\ hist[2].instr.val.val = <<0, 0, 0, 0>>
    /\ hist[2].out = "InvalidSysCall"

\* the step is a sys_call of the number of read_char
IsReadChar(h) ==
    h.decoded /\ h.instr.tag = "SysCall" /\ h.instr.val.val = <<95, 128, 154, 189>>

\* C24: with the input the run started with, the k-th read_char sets o to its
\* k-th byte zero-extended, changes no other register but p and no memory, and
\* a read_char after the last byte returns NoInputGiven.
C24_ReadCharInOrder ==
    \A i \in DOMAIN hist :
        LET h == hist[i]
            stdin == hist[1].input
            k == 1 + Cardinality({j \in 1..(i - 1) : IsReadChar(hist[j])})
        IN  IsReadChar(h) =>
                IF k <= Len(stdin)
                THEN /\ h.out = "None"
                     /\ h.post.cpu.o = <<stdin[k], 0, 0, 0>>
                     /\ \A reg \in {"a", "b", "c", "d", "r", "s"} :
                            h.post.cpu[reg] = h.pre.cpu[reg]
                     /\ h.post.mem = h.pre.mem
                ELSE h.out = "NoInputGiven"

\* on the input 200, 7 the second read_char set o to 7, and the third found no
\* input
C24_Witness ==
    /\ Len(hist) = 3
    /\ hist[1].input = <<200, 7>>
    /\ IsReadChar(hist[1]) /\ hist[1].post.cpu.o = <<200, 0, 0, 0>>
    /\ IsReadChar(hist[2]) /\ hist[2].post.cpu.o = <<7, 0, 0, 0>>
    /\ IsReadChar(hist[3]) /\ hist[3].out = "NoInputGiven"

\* the opcode of the step is one of the Load family
IsLoadFamily(h) ==
    /\ h.decoded
    /\ h.instr.tag = "Load"
    /\ parse_op_code(RawOp(h)).v \in
            {"Load", "LoadSigned", "LoadWord", "LoadWordSigned", "StoreA", "StoreB", "StoreC",
             "StoreD", "Zero"}

\* C25: a Load-family step whose destination is the 8-bit alias of a register
\* other than p leaves bits 8..31 of that register unchanged, and one whose
\* destination is the 16-bit alias leaves bits 16..31 unchanged, whatever the
\* width of the source.
C25_LoadKeepsHighBits ==
    \A i \in DOMAIN hist :
        LET h == hist[i]
            b == h.instr.to.x[1]
            old == h.pre.cpu[RegOf(b % 16)]
            new == h.post.cpu[RegOf(b % 16)]
        IN  (/\ IsLoadFamily(h)
             /\ h.instr.to.kind = "Register"
             /\ b \in ((16..23) \cup (32..39)) \ {22, 38}) =>
                /\ h.out = "None"
                /\ new[3] = old[3] /\ new[4] = old[4]
                /\ b \in 16..23 => new[2] = old[2]

\* the place a memory destination names
DestAddr(to, regs) ==
    CASE to.kind = "AbsoluteAddress" -> Low24(to.x)
      [] to.kind = "RelativeAddress" -> Low24(wrapping_add(to.x, regs.o))
      [] to.kind = "RegisterAddress" ->
            LET reg == regs[RegOf(to.x[1] % 16)]
            IN  CASE to.x[1] \in 0..7 -> Low24(reg)
                  [] to.x[1] \in 16..23 -> reg[1]
                  [] to.x[1] \in 32..39 -> reg[1] + 256 * reg[2]

C27_WritableNaturalWidth ==
    \A i \in DOMAIN hist :
        LET h == hist[i]
            to == h.instr.to
            w == Size_bytes(Writable_size(to))
        IN  (/\ h.decoded
             /\ h.instr.tag \in {"And", "Xor", "Not"}
             /\ WellFormed(to)
             /\ ~IsReg(to, {6, 22, 38})) =>
                /\ h.out = "None"
                /\ PlaceBytes(h.post, h.pre, to, w) = Trunc(WrittenValue(h.instr), w)

\* C28: a Call at p0 of decoded length len decrements s by 4, stores p0 + len
\* as 4 little-endian bytes at the new s and sets p to its operand; a later
\* Return that finds s and those 4 bytes as the Call left them sets p to
\* p0 + len and s to its value before the Call.
C28_CallReturnPairing ==
    \A i \in DOMAIN hist :
        LET h == hist[i]
            back == wrapping_add(h.pre.cpu.p, Word(h.len))
        IN  (h.decoded /\ h.instr.tag = "Call") =>
                /\ h.out = "None"
                /\ h.post.cpu.s = wrapping_sub(h.pre.cpu.s, Word(4))
                /\ read_int(h.post.mem, h.post.cpu.s) = back
                /\ h.post.cpu.p = h.instr.val.val
                /\ \A j \in DOMAIN hist :
                       LET g == hist[j]
                       IN  (/\ j > i
                            /\ g.decoded /\ g.instr.tag = "Return"
                            /\ g.pre.cpu.s = h.post.cpu.s
                            /\ read_int(g.pre.mem, g.pre.cpu.s)
                                  = read_int(h.post.mem, h.post.cpu.s)) =>
                               /\ g.out = "None"
                               /\ g.post.cpu.p = back
                               /\ g.post.cpu.s = h.pre.cpu.s

\* the write of the step selects register p
WritesP(instr) == instr.to.kind = "Register" /\ instr.to.x[1] % 16 = 6

\* C29: after a successful step of an instruction other than Halt, Jump, Call
\* and Return whose destination is not register p, p is p before the step plus
\* the decoded length; a Nop step changes no other register and no memory
\* byte.
C29_ProgramCounterAdvance ==
    \A i \in DOMAIN hist :
        LET h == hist[i]
            advanced == wrapping_add(h.pre.cpu.p, Word(h.len))
        IN  (/\ h.decoded
             /\ h.out = "None"
             /\ h.instr.tag \notin {"Halt", "Jump", "Call", "Return"}
             /\ ~WritesP(h.instr)) =>
                /\ h.post.cpu.p = advanced
                /\ h.instr.tag = "Nop" =>
                      /\ h.len = 1
                      /\ h.post.cpu = [h.pre.cpu EXCEPT !.p = advanced]
                      /\ h.post.mem = h.pre.mem

\* the LoadWord of 7 bytes moved p from 0x400000 to 0x400007, and a later Nop
\* moved it by 1 and left everything else
C29_Witness ==
    /\ Len(hist) >= 3
    /\ hist[1].decoded /\ hist[1].instr.tag = "Load" /\ hist[1].out = "None"
    /\ hist[1].len = 7 /\ hist[1].post.cpu.p = <<7, 0, 64, 0>>
    /\ hist[3].decoded /\ hist[3].instr.tag = "Nop" /\ hist[3].out = "None"
    /\ hist[3].post.cpu = [hist[3].pre.cpu EXCEPT !.p = wrapping_add(@, Word(1))]
    /\ hist[3].post.mem = hist[3].pre.mem

\* C30: a successful Pop whose destination is not register p advances p by its
\* decoded length.
C30_PopAdvances ==
    \A i \in DOMAIN hist :
        LET h == hist[i]
        IN  (/\ h.decoded
             /\ h.instr.tag = "Pop"
             /\ h.out = "None"
             /\ ~WritesP(h.instr)) =>
                h.post.cpu.p = wrapping_add(h.pre.cpu.p, Word(h.len))

\* a Pop into memory, 5 bytes long, moved p on by 5
C30_Witness ==
    \E i \in DOMAIN hist :
        /\ hist[i].decoded /\ hist[i].instr.tag = "Pop" /\ hist[i].out = "None"
        /\ hist[i].instr.to.kind = "AbsoluteAddress"
        /\ hist[i].len = 5
        /\ hist[i].post.cpu.p = wrapping_add(hist[i].pre.cpu.p, Word(5))

\* hist[i .. i+n-1] are n successful pushes
PushRun(i, n) ==
    \A k \in 0..(n - 1) :
        hist[i + k].decoded /\ hist[i + k].instr.tag = "Push" /\ hist[i + k].out = "None"

\* hist[i+n .. i+2n-1] are n pops into registers of the widths pushed, last first
PopRun(i, n) ==
    \A k \in 0..(n - 1) :
        LET pp == hist[i + n + k]
        IN  /\ pp.decoded /\ pp.instr.tag = "Pop"
            /\ pp.instr.to.kind = "Register" /\ WellFormed(pp.instr.to)
            /\ Writable_size(pp.instr.to) = hist[i + n - 1 - k].instr.val.size

\* w1 + ... + wn of the pushes hist[i .. i+n-1]
RECURSIVE PushedBytes(_, _)
PushedBytes(i, n) ==
    IF n = 0 THEN 0 ELSE Size_bytes(hist[i].instr.val.size) + PushedBytes(i + 1, n - 1)

\* the runs of n pushes and n pops in hist
LifoRuns ==
    {r \in (1..MaxSteps) \X (1..MaxSteps) :
        r[1] + 2 * r[2] - 1 <= Len(hist) /\ PushRun(r[1], r[2]) /\ PopRun(r[1], r[2])}

\* s and memory after the pushes, the values popped and s after the pops
LifoHolds(i, n) ==
    LET s0 == hist[i].pre.cpu.s
        top == hist[i + n - 1].post
    IN  /\ top.cpu.s = wrapping_sub(s0, Word(PushedBytes(i, n)))
        /\ \A a \in DOMAIN hist[i].pre.mem \cup DOMAIN top.mem :
               a >= Low24(s0) => read(top.mem, a) = read(hist[i].pre.mem, a)
        /\ \A k \in 0..(n - 1) :
               LET pp == hist[i + n + k]
                   ps == hist[i + n - 1 - k]
                   w == Size_bytes(ps.instr.val.size)
               IN  /\ pp.out = "None"
                   /\ Trunc(pp.post.cpu[RegOf(pp.instr.to.x[1] % 16)], w)
                         = Trunc(ps.instr.val.val, w)
        /\ hist[i + 2 * n - 1].post.cpu.s = s0

\* C31 as stated: from any stack pointer s0, n pushes leave s = s0 - (w1 + ...
\* + wn) and every byte at or above s0 unchanged, and n pops into registers
\* of widths wn..w1 yield vn..v1 and restore s = s0.
C31_StackLifo == \A r \in LifoRuns : LifoHolds(r[1], r[2])

\* the pushes stay at or above address 0 and no pop is into s or p
LifoInRange(i, n) ==
    /\ Low24(hist[i].pre.cpu.s) >= PushedBytes(i, n)
    /\ \A k \in 0..(n - 1) : hist[i + n + k].instr.to.x[1] % 16 \notin {6, 7}

\* C31, amended: when the low 24 bits of s0 are at least w1 + ... + wn and the
\* pops are into registers other than s and p, n pushes leave s = s0 - (w1 +
\* ... + wn) and every byte at or above s0 unchanged, and the n pops yield
\* vn..v1 and restore s = s0.
C31_StackLifoInRange ==
    \A r \in LifoRuns : LifoInRange(r[1], r[2]) => LifoHolds(r[1], r[2])

\* a byte 0x01 and then a word 0x12345678 were pushed from s = 0xC02000; the
\* pops gave the word to c and then the byte to bl, and s is 0xC02000 again
C31_Witness ==
    /\ <<2, 2>> \in LifoRuns
    /\ hist[2].pre.cpu.s = <<0, 32, 192, 0>>
    /\ hist[2].instr.val.size = "Byte" /\ hist[3].instr.val.size = "Int"
    /\ hist[3].post.cpu.s = <<251, 31, 192, 0>>
    /\ hist[4].post.cpu.c = <<120, 86, 52, 18>>
    /\ hist[5].post.cpu.b[1] = 1
    /\ hist[5].post.cpu.s = <<0, 32, 192, 0>>

\* the number of bits of the destination width
DestBits(h) == 8 * Size_bytes(Writable_size(h.instr.to))

\* the second operand masked by 0b111, 0b1111 or 0b11111
MaskedAmount(h) == h.instr.val2.val[1] % DestBits(h)

\* byte j of the low k bits of v
LowBitsByte(v, k, j) ==
    IF k >= 8 * j THEN v[j]
    ELSE IF k > 8 * (j - 1) THEN v[j] % (2 ^ (k - 8 * (j - 1)))
    ELSE 0
LowBits(v, k) ==
    <<LowBitsByte(v, k, 1), LowBitsByte(v, k, 2), LowBitsByte(v, k, 3), LowBitsByte(v, k, 4)>>

\* C32 as stated: after a logical or arithmetic right shift or a logical left
\* shift by k, the second operand masked by the destination width, r holds the
\* low k bits of the value the first operand had before the shift.
C32_ShiftedOutLowBits ==
    \A i \in DOMAIN hist :
        LET h == hist[i]
        IN  (/\ h.decoded
             /\ h.instr.tag \in {"ShiftLogicalRight", "ShiftArithRight", "ShiftLogicLeft"}
             /\ h.out = "None") =>
                h.post.cpu.r = LowBits(h.instr.val.val, MaskedAmount(h))

\* C32, amended: after a logical or arithmetic right shift by k, r holds the low
\* k bits of the value the first operand had before the shift; after a logical
\* left shift by k, r holds that value shifted right by the destination width
\* in bits less k, and 0 when k = 0.
C32_ShiftedOut ==
    \A i \in DOMAIN hist :
        LET h == hist[i]
            k == MaskedAmount(h)
        IN  (/\ h.decoded
             /\ h.instr.tag \in {"ShiftLogicalRight", "ShiftArithRight", "ShiftLogicLeft"}
             /\ h.out = "None") =>
                h.post.cpu.r =
                    IF h.instr.tag # "ShiftLogicLeft" THEN LowBits(h.instr.val.val, k)
                    ELSE IF k = 0 THEN Word(0)
                    ELSE Shr(h.instr.val.val, DestBits(h) - k)

\* 0x12345678 in b shifted left by 4 left 1 in r; the low 4 bits are 8
C32_Witness ==
    \E i \in DOMAIN hist :
        /\ hist[i].decoded /\ hist[i].instr.tag = "ShiftLogicLeft" /\ hist[i].out = "None"
        /\ hist[i].instr.to = Parameter("Register", <<1>>)
        /\ hist[i].instr.val.val = <<120, 86, 52, 18>>
        /\ MaskedAmount(hist[i]) = 4
        /\ hist[i].post.cpu.r = Word(1)
        /\ hist[i].post.cpu.b = <<128, 103, 69, 35>>

\* the 64-bit product of the operands of a Mul step, each extended to 64 bits
\* as its type says
Product64(h) ==
    IF h.instr.kind = "Signed"
    THEN wrapping_mul(SignExt(h.instr.val.val, 8), SignExt(h.instr.val2.val, 8))
    ELSE wrapping_mul(ZeroExt(h.instr.val.val, 8), ZeroExt(h.instr.val2.val, 8))

\* after the step the register `to` names holds the low and r the high 32 bits
\* of the product
MulSplit(h) ==
    /\ h.out = "None"
    /\ h.post.cpu[RegOf(h.instr.to.x[1])] \o h.post.cpu.r = Product64(h)

\* C33 as stated: after an integer Mul whose destination is a 32-bit register
\* other than r, dst holds the low 32 bits and r the high 32 bits of the
\* 64-bit product of the operands.
C33_MulHighLow ==
    \A i \in DOMAIN hist :
        (/\ hist[i].decoded
         /\ hist[i].instr.tag = "Mul"
         /\ hist[i].instr.kind \in {"Signed", "Unsigned"}
         /\ IsReg(hist[i].instr.to, (0..7) \ {4})) => MulSplit(hist[i])

\* C33, amended: after an integer Mul whose destination is a 32-bit register
\* other than r and p, dst holds the low 32 bits and r the high 32 bits of the
\* 64-bit product of the operands.
C33_MulHighLowNotP ==
    \A i \in DOMAIN hist :
        (/\ hist[i].decoded
         /\ hist[i].instr.tag = "Mul"
         /\ hist[i].instr.kind \in {"Signed", "Unsigned"}
         /\ IsReg(hist[i].instr.to, (0..7) \ {4, 6})) => MulSplit(hist[i])

\* signed 0xFFFFFFFF * 0x7FFFFFFF = -0x7FFFFFFF: b = 0x80000001, r = 0xFFFFFFFF
C33_Witness ==
    \E i \in DOMAIN hist :
        /\ hist[i].decoded /\ hist[i].instr.tag = "Mul" /\ hist[i].instr.kind = "Signed"
        /\ hist[i].instr.to = Parameter("Register", <<1>>)
        /\ hist[i].instr.val.val = <<255, 255, 255, 255>>
        /\ hist[i].instr.val2.val = <<255, 255, 255, 127>>
        /\ hist[i].post.cpu.b = <<1, 0, 0, 128>>
        /\ hist[i].post.cpu.r = <<255, 255, 255, 255>>

\* -1, 0 or +1 as a 32-bit value, by the sign of x
SignOf(x) == IF IsZero(x) THEN Word(0) ELSE IF IsNeg(x) THEN <<255, 255, 255, 255>> ELSE Word(1)

\* Abs left |x| in the register `to` names and the sign in r; Sign the reverse
AbsSignSplit(h) ==
    LET x == h.instr.val.val
        dst == h.post.cpu[RegOf(h.instr.to.x[1])]
    IN  /\ h.out = "None"
        /\ IF h.instr.flag
           THEN dst = Magnitude(x) /\ h.post.cpu.r = SignOf(x)
           ELSE dst = SignOf(x) /\ h.post.cpu.r = Magnitude(x)

\* C34 as stated: after a signed Abs on x whose destination is a 32-bit
\* register other than r, dst holds |x| and r holds -1, 0 or +1 by the sign of
\* x; after Sign the two are swapped.
C34_AbsSign ==
    \A i \in DOMAIN hist :
        (/\ hist[i].decoded
         /\ hist[i].instr.tag = "AbsSign" /\ hist[i].instr.kind = "Signed"
         /\ IsReg(hist[i].instr.to, (0..7) \ {4})) => AbsSignSplit(hist[i])

\* C34, amended: after a signed Abs on x whose destination is a 32-bit register
\* other than r and p, dst holds |x| and r holds -1, 0 or +1 by the sign of x;
\* after Sign the two are swapped.
C34_AbsSignNotP ==
    \A i \in DOMAIN hist :
        (/\ hist[i].decoded
         /\ hist[i].instr.tag = "AbsSign" /\ hist[i].instr.kind = "Signed"
         /\ IsReg(hist[i].instr.to, (0..7) \ {4, 6})) => AbsSignSplit(hist[i])

\* Abs of b = 0x80000000 left b = 0x80000000 (2^31) and r = -1
C34_Witness ==
    \E i \in DOMAIN hist :
        /\ hist[i].decoded /\ hist[i].instr.tag = "AbsSign" /\ hist[i].instr.flag
        /\ hist[i].instr.to = Parameter("Register", <<1>>)
        /\ hist[i].instr.val.val = <<0, 0, 0, 128>>
        /\ hist[i].post.cpu.b = <<0, 0, 0, 128>>
        /\ hist[i].post.cpu.r = <<255, 255, 255, 255>>

\* C35: on one parameter, CPU, memory and declared width, from_par_signed fails
\* exactly when from_par fails, returns the same width, and its bits are the
\* sign extension from that width of from_par's bits; for a width of 4 bytes
\* the bits are identical.
C35_ResolversAgree ==
    \A i, j \in DOMAIN hist :
        (hist[i].op = "from_par" /\ hist[j].op = "from_par_signed") =>
            LET u == hist[i].res
                sg == hist[j].res
            IN  /\ IsOk(sg) <=> IsOk(u)
                /\ IsOk(u) =>
                      /\ sg.v.size = u.v.size
                      /\ sg.v.val = SignExt(Trunc(u.v.val, Size_bytes(u.v.size)), 4)
                      /\ u.v.size = "Int" => sg.v.val = u.v.val

\* the short at 0x000100 is 0xFFC8 unsigned and 0xFFFFFFC8 signed
C35_Witness ==
    /\ Len(hist) = 3
    /\ hist[1].par = Parameter("AbsoluteAddress", <<0, 1, 0, 0>>)
    /\ hist[1].mem_size = "Short"
    /\ hist[2].op = "from_par" /\ hist[2].res = Ok(Value_new(<<200, 255, 0, 0>>, "Short"))
    /\ hist[3].op = "from_par_signed"
    /\ hist[3].res = Ok(Value_new(<<200, 255, 255, 255>>, "Short"))

\* the byte of the array at index a, 0 past its end
ArrayByte(array, a) == IF a < 16777216 /\ a \in DOMAIN array THEN array[a] ELSE 0

\* C36: read_short, read_24bit and read_int at a truncated address in the last
\* 3 bytes of the array return the bytes inside the array little-endian and 0
\* for every byte past its end, not the bytes at address 0 onward.
C36_ReadsDoNotWrap ==
    \A i \in DOMAIN hist :
        LET h == hist[i]
            p0 == Low24(h.ptr)
            w == CASE h.op = "read_short" -> 2 [] h.op = "read_24bit" -> 3 [] OTHER -> 4
        IN  (h.op \in {"read_short", "read_24bit", "read_int"} /\ p0 + w > 16777216) =>
                /\ \A k \in 0..(w - 1) : h.res[k + 1] = ArrayByte(h.pre, p0 + k)
                /\ \A k \in 0..(w - 1) : p0 + k >= 16777216 => h.res[k + 1] = 0

\* read_int at 0xFFFFFE gave 77 88 00 00 while the bytes at 0 and 1 are 09 08
C36_Witness ==
    \E i \in DOMAIN hist :
        /\ hist[i].op = "read_int" /\ hist[i].ptr = <<254, 255, 255, 0>>
        /\ ArrayByte(hist[i].pre, 0) = 9 /\ ArrayByte(hist[i].pre, 1) = 8
        /\ hist[i].res = <<119, 136, 0, 0>>

\* the operands of the instruction at p, as parse_instruction reads them
OperandsAt(mem, ptr) ==
    LET mode == read_byte(mem, wrapping_add(ptr, Word(1)))[1]
        first == parse_parameter(mem, wrapping_add(ptr, Word(2)), parse_par_mode(mode \div 16).v)
        second == parse_parameter(mem, wrapping_add(ptr, Word(2 + first[2])),
                                  parse_par_mode(mode % 16).v)
    IN  <<first[1], second[1]>>

\* the operand is register n read at its full 32 bits
WholeRegister(par, n) ==
    par.kind = "Register" /\ par.x[1] % 16 = n /\ get_reg_size(par.x[1]) = "Int"

\* the two steps wrote the same bytes to memory and read the same values
SameStackEffect(one, two) ==
    /\ one.x.err = two.x.err
    /\ one.x.mem = two.x.mem
    /\ one.instr.tag \in {"Pop", "Return"} =>
          /\ \A reg \in RegNames \ {"s"} : one.x.cpu[reg] = two.x.cpu[reg]
          /\ Low24(one.x.cpu.s) = Low24(two.x.cpu.s)

\* C37 as stated: two machines that differ only in bits 24..31 of p decode the
\* same instruction of the same length, and on two machines that differ only in
\* bits 24..31 of s Push, Pop, Call and Return write the same memory bytes and
\* read the same values.
C37_ModuloPS ==
    \A i \in DOMAIN hist :
        LET h == hist[i]
        IN  /\ h.op = "parse_instruction" => h.one = h.two
            /\ (/\ h.op = "next_step"
                /\ h.one.decoded
                /\ h.one.instr.tag \in {"Push", "Pop", "Call", "Return"}) =>
                   SameStackEffect(h.one, h.two)

\* C37, amended: two machines that differ only in bits 24..31 of p decode an
\* instruction of the same length, and the same instruction when no operand is
\* the 32-bit register p; on two machines that differ only in bits 24..31 of s
\* Pop, Call, Return and a Push of an operand other than the 32-bit register s
\* write the same memory bytes and read the same values.
C37_ModuloPSOperands ==
    \A i \in DOMAIN hist :
        LET h == hist[i]
            pars == OperandsAt(memory, cpu.p)
        IN  /\ h.op = "parse_instruction" =>
                  /\ h.one.err = h.two.err
                  /\ IsOk(h.one) => h.one.v[2] = h.two.v[2]
                  /\ (IsOk(h.one) /\ h.one.v[2] > 1 /\ \E k \in 1..2 : WholeRegister(pars[k], 6))
                     \/ h.one = h.two
            /\ (/\ h.op = "next_step"
                /\ h.one.decoded
                /\ h.one.instr.tag \in {"Push", "Pop", "Call", "Return"}
                /\ ~(h.one.instr.tag = "Push" /\ WholeRegister(pars[1], 7))) =>
                   SameStackEffect(h.one, h.two)

\* with s = 0xC02000 and s = 0xFFC02000 Pop b read 0x44332211 from 0xC02000, and
\* the Pop decoded alike at p = 0x400000 and p = 0xFF400000
C37_Witness ==
    /\ Len(hist) = 2
    /\ hist[1].op = "next_step" /\ hist[1].hi = 255
    /\ hist[1].one.instr.tag = "Pop"
    /\ hist[1].one.x.cpu.b = <<17, 34, 51, 68>> /\ hist[1].two.x.cpu.b = <<17, 34, 51, 68>>
    /\ hist[1].one.x.cpu.s = <<4, 32, 192, 0>> /\ hist[1].two.x.cpu.s = <<4, 32, 192, 255>>
    /\ hist[2].op = "parse_instruction" /\ hist[2].hi = 255
    /\ IsOk(hist[2].one) /\ hist[2].one.v[1].tag = "Pop" /\ hist[2].one = hist[2].two

\* the instructions that read their first operand and write the result to it
ReadModifyWrite ==
    {"Add", "Sub", "Mul", "And", "Or", "Not", "Xor", "ShiftLogicalRight", "ShiftArithRight",
     "ShiftLogicLeft", "RotateRight", "RotateLeft", "Set", "Clear", "Toggle"}

\* the addresses whose byte the step changed
ChangedBytes(h) ==
    {a \in DOMAIN h.pre.mem \cup DOMAIN h.post.mem :
        ArrayByte(h.pre.mem, a) # ArrayByte(h.post.mem, a)}

\* the addresses read as a memory first operand: mem_size is Byte
FirstOperandBytes(h) ==
    {(DestAddr(h.instr.to, h.pre.cpu) + k) % MB_16 : k \in 0..(Size_bytes("Byte") - 1)}

\* C38: an instruction that reads its first operand and writes the result back
\* to it, with a memory first operand, changes no memory byte other than the
\* bytes it read as the first operand.
C38_ReadModifyWriteFrame ==
    \A i \in DOMAIN hist :
        LET h == hist[i]
        IN  (/\ h.decoded
             /\ h.instr.tag \in ReadModifyWrite
             /\ h.instr.to.kind \in {"AbsoluteAddress", "RelativeAddress", "RegisterAddress"}) =>
                ChangedBytes(h) \subseteq FirstOperandBytes(h)

\* the step is not a Jump, Call or Return and writes neither p nor memory
StraightLine(h) ==
    h.decoded =>
        /\ h.instr.tag \notin {"Jump", "Call", "Return"}
        /\ ~WritesP(h.instr)
        /\ h.post.mem = h.pre.mem

\* C39: while no executed instruction is a Jump, Call or Return and none writes
\* p or memory, p grows with every step that goes on, the loop of run_code has
\* ended with Halted or an error after at most L + 1 steps for a payload of L
\* bytes, and a payload of k Nop bytes halts after exactly k + 1 steps with
\* p = 0x400000 + k.
C39_StraightLineTerminates ==
    LET L == Len(rom.bytes)
    IN  (\A i \in DOMAIN hist : StraightLine(hist[i])) =>
            /\ Len(hist) <= L + 1
            /\ status = "Running" => Len(hist) <= L
            /\ status \in {"Running", "Halted"} \cup ErrorKinds
            /\ \A i \in DOMAIN hist :
                  hist[i].out = "None" =>
                      /\ hist[i].post.cpu.p[4] = 0
                      /\ Low24(hist[i].post.cpu.p) > Low24(hist[i].pre.cpu.p)
            /\ (\A j \in 1..L : rom.bytes[j] = OpByte("Nop")) =>
                  \/ status = "Running" /\ Len(hist) <= L
                        /\ Low24(cpu.p) = MB_4 + Len(hist)
                  \/ status = "Halted" /\ Len(hist) = L + 1
                        /\ cpu.p[4] = 0 /\ Low24(cpu.p) = MB_4 + L

====
